---------------------------- MODULE Spec2Model ----------------------------
(***************************************************************************)
(* A model of the wellbeing pipeline of breath-u1: the Coordinator and its *)
(* agents (InterfaceAgent, EmotionAgent, CalendarAgent, FeedbackAgent) and *)
(* the schedule allocator of uninformed_search.py.                         *)
(*                                                                         *)
(* Conventions.  Python floats that carry a score are integers in units of *)
(* 0.0001 (One = 1.0).  Python's None is the value PyNone.  Strings        *)
(* are TLA+ strings; the substring test, lower() and strip() are computed  *)
(* on their characters.                                                    *)
(***************************************************************************)
EXTENDS Integers, Sequences, FiniteSets, TLC

VARIABLES
    \* ---- uninformed_search.bfs_schedule called on its own
    bpc,           \* "call" before the call, "done" after it
    bTasks,        \* the task list handed to bfs_schedule
    bBudget,       \* the slot budget handed to bfs_schedule
    bResult,       \* the returned schedule
    \* ---- uninformed_search.calculate_stress_slots called on its own
    spc,           \* "call" before the calls, "done" after them
    sLevel1,       \* first stress level
    sLevel2,       \* second stress level
    sSlots1,       \* calculate_stress_slots(sLevel1)
    sSlots2,       \* calculate_stress_slots(sLevel2)
    \* ---- EmotionAgent.classify called on its own
    epc,           \* "call" before the call, "done" after it
    eAgent,        \* the EmotionAgent: _use_hf, pipeline, _pipeline_initialized
    eEnv,          \* what loading the optional scorer would do
    eText,         \* the text handed to classify
    eResult,       \* what classify returned, or that it raised
    \* ---- FeedbackAgent.craft_message / generate_feedback called on their own
    fpc,           \* "call" before the call, "done" after it
    fAgent,        \* the FeedbackAgent as constructed
    fEntry,        \* the method called
    fSummary,      \* emotion_summary
    fSuggestions,  \* calendar_suggestions
    fResps,        \* what the k-th POST of this call meets, k = 1..max_retries
    fBridge,       \* how the event loop meets craft_message
    fOut,          \* the returned envelope, the attempts and sleeps, the producer
    \* ---- Coordinator.handle_text
    pc,            \* the stage handle_text is at; "idle" and "done" between calls
    interface,     \* Coordinator.interface (none: the attribute is None)
    emotion,       \* Coordinator.emotion and the EmotionAgent's fields
    calendar,      \* Coordinator.calendar and the CalendarAgent's fields
    feedback,      \* Coordinator.feedback and the FeedbackAgent's fields
    frame,         \* the locals of handle_text
    response,      \* the envelope returned by the last call
    raised,        \* whether the last call raised instead of returning
    faults,        \* the collaborator failures met during the call
    outer,         \* whether the outer except clause of handle_text ran
    producer,      \* the generator that produced message.recommendations
    netTrace,      \* the remote attempts and sleeps made for the call
    \* ---- craft_message waiting on a loop that is already running
    wpc,           \* the caller: "call", "blocked" in future.result, "released"
    wTimeout,      \* FeedbackAgent.request_timeout, in seconds
    wLoop,         \* the thread the running loop is on: the caller's or another
    wRemaining,    \* seconds of work the submitted coroutine still needs
    wClock,        \* seconds the caller has been blocked
    wOut,          \* what the caller is released with
    \* ---- threads in EmotionAgent._ensure_pipeline_initialized
    lpc,           \* where each thread is in the method
    lAgent,        \* the agent the threads share
    lBuilt,        \* the pipeline object each thread got from pipeline_fn
    lRet,          \* what each thread returned
    lCalls,        \* how many times pipeline_fn was called
    \* ---- CalendarAgent.get_upcoming_events called repeatedly
    cAgent,        \* the CalendarAgent's fields
    cLog,          \* for each call so far, whether it failed
    cRet,          \* the list the last call returned
    \* ---- InterfaceAgent.handle_input / extract_intent called on their own
    ipc,           \* "call" before the call, "done" after it
    iEntry,        \* which method is called
    iText,         \* the text argument
    iAudio,        \* what the audio argument comes to
    iHeard,        \* what transcribe_audio returns for it
    iOut,          \* the result, or that the call raised
    \* ---- craft_message on a running loop, with the retry loop it submits
    kpc,           \* the caller: "call", "blocked" in future.result, "released"
    kTimeout,      \* request_timeout
    kRetries,      \* max_retries
    kLoop,         \* whose thread runs the loop
    kClock,        \* seconds since the call
    kAttempt,      \* the attempt the retry loop is at
    kPhase,        \* the coroutine: "queued", "attempt", "sleep", "done"
    kLeft,         \* seconds left of the current attempt or sleep
    kFails,        \* whether the current attempt ends in an exception
    kBusy,         \* seconds the coroutine has spent in attempts and sleeps
    kLate,         \* attempts and sleeps begun after craft_message returned
    kOut,          \* what craft_message returned
    \* ---- FeedbackAgent._extract_content_from_response called on its own
    xpc,           \* "call" before the call, "done" after it
    xData,         \* the decoded body of the response
    xOut,          \* the returned content, or None
    \* ---- FeedbackAgent._parse_json_response called on its own
    jpc,           \* "call" before the call, "done" after it
    jContent,      \* the content handed to the method
    jOut           \* the returned value and the step that produced it

bfsVars == <<bpc, bTasks, bBudget, bResult>>
slotVars == <<spc, sLevel1, sLevel2, sSlots1, sSlots2>>
emoVars == <<epc, eAgent, eEnv, eText, eResult>>
fbVars == <<fpc, fAgent, fEntry, fSummary, fSuggestions, fResps, fBridge, fOut>>
agentVars == <<interface, emotion, calendar, feedback>>
callVars == <<pc, frame, response, raised, faults, outer, producer, netTrace>>
coVars == <<agentVars, callVars>>
waitVars == <<wpc, wTimeout, wLoop, wRemaining, wClock, wOut>>
lazyVars == <<lpc, lAgent, lBuilt, lRet, lCalls>>
calVars == <<cAgent, cLog, cRet>>
intentVars == <<ipc, iEntry, iText, iAudio, iHeard, iOut>>
cancelVars == <<kpc, kTimeout, kRetries, kLoop, kClock, kAttempt, kPhase, kLeft,
                kFails, kBusy, kLate, kOut>>
respVars == <<xpc, xData, xOut, jpc, jContent, jOut>>
vars == <<bfsVars, slotVars, emoVars, fbVars, coVars, waitVars, lazyVars, calVars, intentVars, cancelVars, respVars>>

----------------------------------------------------------------------------
(* Values and strings                                                      *)

PyNone == "<None>"

\* 1.0 in units of 0.0001
One == 10000

\* round(x, 2) and round(x, 3) of a non-negative or negative score; a tie goes
\* away from the floor (the sampled scores have no ties)
Round2(x) == 100 * ((x + 50) \div 100)
Round3(x) == 10 * ((x + 5) \div 10)

Min(a, b) == IF b < a THEN b ELSE a
Max(a, b) == IF b > a THEN b ELSE a

\* Python's  w in t  for strings
Contains(t, w) ==
    \E i \in 1..(Len(t) - Len(w) + 1) : SubSeq(t, i, i + Len(w) - 1) = w

UpperChars == "ABCDEFGHIJKLMNOPQRSTUVWXYZ"
LowerChars == "abcdefghijklmnopqrstuvwxyz"

UpperSet == {SubSeq(UpperChars, i, i) : i \in 1..Len(UpperChars)}

LowerChar(c) ==
    IF c \in UpperSet
    THEN LET i == CHOOSE j \in 1..Len(UpperChars) : SubSeq(UpperChars, j, j) = c
         IN  SubSeq(LowerChars, i, i)
    ELSE c

RECURSIVE LowerFrom(_, _, _)
LowerFrom(t, lo, hi) ==
    IF lo > hi THEN ""
    ELSE IF lo = hi THEN LowerChar(SubSeq(t, lo, lo))
    ELSE LowerFrom(t, lo, (lo + hi) \div 2)
         \o LowerFrom(t, (lo + hi) \div 2 + 1, hi)

\* str.lower()
Lower(t) == LowerFrom(t, 1, Len(t))

IsSpace(c) == c \in {" ", "\t", "\n", "\r"}

\* str.strip()
Strip(t) ==
    LET idx == {i \in 1..Len(t) : ~IsSpace(SubSeq(t, i, i))}
    IN  IF idx = {} THEN ""
        ELSE LET lo == CHOOSE i \in idx : \A j \in idx : i <= j
                 hi == CHOOSE i \in idx : \A j \in idx : i >= j
             IN  SubSeq(t, lo, hi)

\* Python truthiness of an optional string:  not text
Falsy(t) == t = PyNone \/ t = ""

\* sep.join(xs)
RECURSIVE JoinWith(_, _)
JoinWith(xs, sep) ==
    IF xs = <<>> THEN ""
    ELSE IF Len(xs) = 1 THEN xs[1]
    ELSE xs[1] \o sep \o JoinWith(Tail(xs), sep)

\* xs[:n]
Take(xs, n) == SubSeq(xs, 1, Min(n, Len(xs)))

----------------------------------------------------------------------------
(* uninformed_search.py                                                    *)

\* f"Slot {n}: {task}"
SlotLabel(n, task) == "Slot " \o ToString(n) \o ": " \o task

\* a loop that takes the task from the wrong end of the queue (queue.pop())
RECURSIVE BfsLoopLifo(_, _, _)
BfsLoopLifo(queue, schedule, available_slots) ==
    IF queue # <<>> /\ Len(schedule) < available_slots
    THEN BfsLoopLifo(SubSeq(queue, 1, Len(queue) - 1),
                     Append(schedule,
                            SlotLabel(Len(schedule) + 1, queue[Len(queue)])),
                     available_slots)
    ELSE schedule

\* the while loop of bfs_schedule: pop the head of the queue, append its slot
RECURSIVE BfsLoop(_, _, _)
BfsLoop(queue, schedule, available_slots) ==
    IF queue # <<>> /\ Len(schedule) < available_slots
    THEN BfsLoop(Tail(queue),
                 Append(schedule, SlotLabel(Len(schedule) + 1, Head(queue))),
                 available_slots)
    ELSE schedule

bfs_schedule(tasks, available_slots) ==
    IF tasks = <<>> \/ available_slots = 0
    THEN <<>>
    ELSE BfsLoop(tasks, <<>>, available_slots)

\* the bands with >= in place of >
calculate_stress_slots_ge(stress_level) ==
    IF stress_level >= 7000 THEN 2
    ELSE IF stress_level >= 4000 THEN 3
    ELSE 4

calculate_stress_slots(stress_level) ==
    IF stress_level > 7000 THEN 2
    ELSE IF stress_level > 4000 THEN 3
    ELSE 4

----------------------------------------------------------------------------
(* agents/emotion_agent.py                                                 *)

\* a Python value handed to float(): a number, None (or a missing key), or a
\* string that float() rejects
F(v) == [t |-> "float", v |-> v]
NoScore == [t |-> "none", v |-> 0]
BadScore == [t |-> "str", v |-> 0]

stress_indicators ==
    << "stress", "stressado", "estressado", "estressada",
       "tensão", "tenso", "tensa", "ansios",
       "ansiedade", "ansioso", "ansiosa", "nervos",
       "nervoso", "nervosa", "nervousness", "preocupad",
       "preocupado", "preocupada", "angustia", "angústia",
       "angustiado", "angustiada", "medo", "tem medo",
       "assustado", "assustada", "pânico", "ataque de pânico",
       "aterrorizado", "sobrecarreg", "sobrecarregado", "sobrecarregada",
       "pressão", "deadline", "prazo", "prazos",
       "exame", "teste", "prova", "exaust",
       "exausto", "exausta", "esgotado", "esgotada",
       "faculdade", "universidade", "não consigo dormir", "insônia",
       "insonia", "coração acelerado", "suor frio", "não consigo respirar",
       "falta de ar", "tremor", "tremores", "cansado",
       "cansada", "desesperado", "desesperada", "sem esperança",
       "não aguento mais", "no limite", "fatigado", "fatigada",
       "esgotamento", "irritado", "irritada", "zangado",
       "zangada", "raiva", "furioso", "furiosa",
       "sobrecarregado", "sobrecarregada", "não dou conta", "muito para fazer",
       "muitas tarefas", "muito trabalho", "muita pressão", "muitos exames",
       "muitos trabalhos" >>
valence_indicators ==
    << "feliz", "alegre", "bom", "boa",
       "satisfeito", "satisfeita", "alegria", "joy",
       "happy", "love", "content", "contente",
       "bem", "optimista", "otimista", "grato",
       "grata", "sorridente", "sorriso", "entusiasmado",
       "entusiasmada", "animado", "animada", "felicidade",
       "prazer", "diversão", "brincar" >>
\* weights that count the strong indicators only
StressWeightStrongOnly(w) ==
    IF w \in {"ataque de pânico", "não aguento mais", "no limite",
              "desesperado", "desesperada"} THEN 4
    ELSE IF w \in {"exausto", "exausta", "esgotado", "esgotada",
                   "sobrecarregado", "sobrecarregada"} THEN 3
    ELSE IF w \in {"ansiedade", "pânico", "angústia", "nervousness"} THEN 2
    ELSE 0

\* the weight of a stress indicator found in the text
StressWeight(w) ==
    IF w \in {"ataque de pânico", "não aguento mais", "no limite",
              "desesperado", "desesperada"} THEN 4
    ELSE IF w \in {"exausto", "exausta", "esgotado", "esgotada",
                   "sobrecarregado", "sobrecarregada"} THEN 3
    ELSE IF w \in {"ansiedade", "pânico", "angústia", "nervousness"} THEN 2
    ELSE 1

\* the loop over stress_indicators, from index i on
RECURSIVE StressCountFrom(_, _, _)
StressCountFrom(lower, lo, hi) ==
    IF lo > hi THEN 0
    ELSE IF lo = hi
    THEN (IF Contains(lower, stress_indicators[lo])
          THEN StressWeight(stress_indicators[lo]) ELSE 0)
    ELSE StressCountFrom(lower, lo, (lo + hi) \div 2)
         + StressCountFrom(lower, (lo + hi) \div 2 + 1, hi)

\* sum(1 for w in valence_indicators if w in lower)
RECURSIVE ValenceCountFrom(_, _, _)
ValenceCountFrom(lower, lo, hi) ==
    IF lo > hi THEN 0
    ELSE IF lo = hi
    THEN (IF Contains(lower, valence_indicators[lo]) THEN 1 ELSE 0)
    ELSE ValenceCountFrom(lower, lo, (lo + hi) \div 2)
         + ValenceCountFrom(lower, (lo + hi) \div 2 + 1, hi)

\* the pieces of the regular expressions of high_stress_phrases: a literal,
\* \s+ and .
Lit(str) == [k |-> "lit", s |-> str]
Spaces == [k |-> "spaces", s |-> ""]
AnyChar == [k |-> "any", s |-> ""]

high_stress_phrases ==
    << << Lit("estou"), Spaces, Lit("muito"), Spaces, Lit("stressado") >>,
       << Lit("muitos"), Spaces, Lit("exames") >>,
       << Lit("muitos"), Spaces, Lit("trabalhos") >>,
       << Lit("sinto"), AnyChar, Lit("me"), Spaces, Lit("sobrecarregado") >>,
       << Lit("sinto"), AnyChar, Lit("me"), Spaces, Lit("sobrecarregada") >>,
       << Lit("sinto"), AnyChar, Lit("me"), Spaces, Lit("cansado") >>,
       << Lit("sinto"), AnyChar, Lit("me"), Spaces, Lit("cansada") >>,
       << Lit("não"), Spaces, Lit("aguento"), Spaces, Lit("mais") >>,
       << Lit("estou"), Spaces, Lit("no"), Spaces, Lit("limite") >>,
       << Lit("ataque"), Spaces, Lit("de"), Spaces, Lit("pânico") >>,
       << Lit("não"), Spaces, Lit("consigo"), Spaces, Lit("respirar") >>,
       << Lit("coração"), Spaces, Lit("acelerado") >>,
       << Lit("vou"), Spaces, Lit("ter"), Spaces, Lit("um"), Spaces, Lit("ataque") >>,
       << Lit("não"), Spaces, Lit("vejo"), Spaces, Lit("solução") >>,
       << Lit("estou"), Spaces, Lit("desesperado") >>,
       << Lit("estou"), Spaces, Lit("desesperada") >> >>

\* whether pieces j.. of the pattern match the text at position i
RECURSIVE MatchAt(_, _, _, _)
MatchAt(t, i, pat, j) ==
    IF j > Len(pat) THEN TRUE
    ELSE IF pat[j].k = "lit"
    THEN /\ i + Len(pat[j].s) - 1 <= Len(t)
         /\ SubSeq(t, i, i + Len(pat[j].s) - 1) = pat[j].s
         /\ MatchAt(t, i + Len(pat[j].s), pat, j + 1)
    ELSE IF pat[j].k = "any"
    THEN /\ i <= Len(t)
         /\ SubSeq(t, i, i) # "\n"
         /\ MatchAt(t, i + 1, pat, j + 1)
    ELSE \E n \in 1..(Len(t) - i + 1) :
             /\ \A m \in i..(i + n - 1) : IsSpace(SubSeq(t, m, m))
             /\ MatchAt(t, i + n, pat, j + 1)

\* re.search(phrase, lower)
re_search(pat, t) == \E i \in 1..Len(t) : MatchAt(t, i, pat, 1)

\* the stress score without the clamps to 1.0
StressFromCountNoClamp(stress_count, lower) ==
    IF stress_count > 0
    THEN LET stress == 5000 + stress_count * 1500
         IN  IF stress_count >= 6 THEN stress + 3000
             ELSE IF stress_count >= 4 THEN stress + 2000
             ELSE IF stress_count >= 2 THEN stress + 1000
             ELSE stress
    ELSE IF \E word \in {"stress", "ansiedade", "preocupado", "sobrecarregado"} :
                Contains(lower, word)
    THEN 4000
    ELSE 0

\* the stress score with the bonuses left out
StressFromCountNoBonus(stress_count, lower) ==
    IF stress_count > 0
    THEN Min(One, 5000 + stress_count * 1500)
    ELSE IF \E word \in {"stress", "ansiedade", "preocupado", "sobrecarregado"} :
                Contains(lower, word)
    THEN 4000
    ELSE 0

\* the stress score from the weighted count, before the phrase floor
StressFromCount(stress_count, lower) ==
    IF stress_count > 0
    THEN LET stress == Min(One, 5000 + stress_count * 1500)
         IN  IF stress_count >= 6 THEN Min(One, stress + 3000)
             ELSE IF stress_count >= 4 THEN Min(One, stress + 2000)
             ELSE IF stress_count >= 2 THEN Min(One, stress + 1000)
             ELSE stress
    ELSE IF \E word \in {"stress", "ansiedade", "preocupado", "sobrecarregado"} :
                Contains(lower, word)
    THEN 4000
    ELSE 0

\* the dominant label without the band above 0.7
DominantOfNoHighBand(stress, valence) ==
    IF stress > 4000 THEN "stress"
    ELSE IF stress > valence THEN "stress_leve"
    ELSE IF valence > stress THEN "felicidade"
    ELSE "neutro"

\* lines 253-263: the dominant label
DominantOf(stress, valence) ==
    IF stress > 7000 THEN "alto_stress"
    ELSE IF stress > 4000 THEN "stress"
    ELSE IF stress > valence THEN "stress_leve"
    ELSE IF valence > stress THEN "felicidade"
    ELSE "neutro"

\* whether one of high_stress_phrases is found in the lowered text
PhraseMatched(lower) ==
    \E k \in 1..Len(high_stress_phrases) : re_search(high_stress_phrases[k], lower)

\* a floor that is added to the computed score
PhraseFloorAdded(stress0, matched) ==
    IF matched THEN Min(One, stress0 + 7000) ELSE stress0

\* lines 247-251: stress = max(stress, 0.7) on the first phrase found
PhraseFloor(stress0, matched) ==
    IF matched THEN Max(stress0, 7000) ELSE stress0

\* EmotionAgent._classify_heuristic; text.lower() raises on None
classify_heuristic(text) ==
    IF text = PyNone
    THEN [raised |-> TRUE, value |-> [shape |-> "None"]]
    ELSE
    LET lower == Lower(text)
        stress_count == StressCountFrom(lower, 1, Len(stress_indicators))
        valence_count == ValenceCountFrom(lower, 1, Len(valence_indicators))
        stress0 == StressFromCount(stress_count, lower)
        valence == IF valence_count > 0
                   THEN Min(9000, 3000 + valence_count * 1000) ELSE 0
        stress == PhraseFloor(stress0, PhraseMatched(lower))
    IN  [raised |-> FALSE,
         value |-> [shape |-> "emotion",
                    emotion |-> [isdict |-> TRUE,
                                 stress_score |-> F(Round2(stress)),
                                 valence |-> F(Round2(valence)),
                                 dominant |-> DominantOf(stress, valence)]]]

\* EmotionAgent.__init__: the agent as constructed
EmotionAgentInit(use_hf) ==
    [use_hf |-> use_hf, pipeline |-> PyNone, pipeline_initialized |-> FALSE]

\* what importing transformers and building the pipeline can do
HfEnvs == {"import_fails", "no_pipeline_attr", "constructor_raises", "ok"}

\* EmotionAgent._ensure_pipeline_initialized: the returned flag and the agent
ensure_pipeline_initialized(agent, env) ==
    IF agent.pipeline_initialized
    THEN [ret |-> agent.pipeline # PyNone, agent |-> agent]
    ELSE IF ~agent.use_hf
    THEN [ret |-> FALSE, agent |-> [agent EXCEPT !.pipeline_initialized = TRUE]]
    ELSE IF env = "no_pipeline_attr"
    THEN [ret |-> FALSE,
          agent |-> [agent EXCEPT !.use_hf = FALSE, !.pipeline_initialized = TRUE]]
    ELSE IF env = "ok"
    THEN [ret |-> TRUE,
          agent |-> [agent EXCEPT !.pipeline = "pipeline",
                                  !.pipeline_initialized = TRUE]]
    ELSE [ret |-> FALSE,
          agent |-> [agent EXCEPT !.pipeline = PyNone, !.use_hf = FALSE,
                                  !.pipeline_initialized = TRUE]]

\* the label/score pairs the external scorer can return (flattened)
HfScores ==
    { <<[label |-> "fear", score |-> 8000], [label |-> "joy", score |-> 1000]>>,
      <<[label |-> "joy", score |-> 9000], [label |-> "sadness", score |-> 500]>>,
      <<[label |-> "neutral", score |-> 9900]>> }

RECURSIVE LabelSum(_, _, _)
LabelSum(flat, labels, i) ==
    IF i > Len(flat) THEN 0
    ELSE (IF flat[i].label \in labels THEN flat[i].score ELSE 0)
         + LabelSum(flat, labels, i + 1)

\* EmotionAgent._classify_with_hf on the scorer's output
classify_with_hf(flat) ==
    LET stress == LabelSum(flat, {"anger", "sadness", "fear", "annoyance",
                                  "disapproval", "disappointment", "nervousness"}, 1)
        valence == LabelSum(flat, {"joy", "love", "approval", "admiration",
                                   "optimism", "excitement"}, 1)
        top == CHOOSE i \in 1..Len(flat) :
                   \A j \in 1..Len(flat) :
                       flat[j].score < flat[i].score
                       \/ (flat[j].score = flat[i].score /\ i <= j)
    IN  [shape |-> "emotion",
         emotion |-> [isdict |-> TRUE,
                      stress_score |-> F(Min(One, stress)),
                      valence |-> F(Min(One, valence)),
                      dominant |-> flat[top].label]]

\* EmotionAgent.classify without  text = text or ""
ClassifyNoDefault(agent, text, env) ==
    {[result |-> classify_heuristic(text),
      agent |-> [agent EXCEPT !.use_hf = FALSE]]}

\* EmotionAgent.classify: the possible results, each with the agent it leaves
classify(agent, text, env) ==
    LET text1 == IF Falsy(text) THEN "" ELSE text
        a1 == [agent EXCEPT !.use_hf = FALSE]
    IN  IF a1.use_hf /\ Len(Strip(text1)) > 5
        THEN LET e == ensure_pipeline_initialized(a1, env)
             IN  IF e.ret /\ e.agent.pipeline # PyNone
                 THEN {[result |-> classify_heuristic(text1), agent |-> e.agent]}
                      \cup
                      {[result |->
                          IF classify_with_hf(flat).emotion.stress_score.v < 3000
                          THEN classify_heuristic(text1)
                          ELSE [raised |-> FALSE, value |-> classify_with_hf(flat)],
                        agent |-> e.agent] : flat \in HfScores}
                 ELSE {[result |-> classify_heuristic(text1), agent |-> e.agent]}
        ELSE {[result |-> classify_heuristic(text1), agent |-> a1]}

----------------------------------------------------------------------------
(* agents/feedback_agent.py                                                *)

\* str(x) of an optional string
Str(x) == IF x = PyNone THEN "None" ELSE x

Rec(type, text) == [type |-> type, text |-> text]

\* the curated triple of a band of _heuristic_feedback (type and text of each
\* recommendation)
HeuristicTriple(stress, valence, dominant) ==
    IF stress > 8000 \/ Contains(dominant, "ansiedade") \/ Contains(dominant, "panic")
    THEN << Rec("immediate", "TÉCNICA 5-4-3-2-1: Identifica 5 coisas que vês, 4 que tocas, 3 que ouves, 2 que cheiras, 1 que gostas"),
            Rec("short_term", "POMODORO: 25min estudo + 5min pausa ativa - 4 ciclos + pausa longa"),
            Rec("professional", "Procura apoio psicológico universitário ou linha de crise local") >>
    ELSE IF stress > 6000
    THEN << Rec("immediate", "RESPIRAÇÃO 4-7-8: Inspira 4s, segura 7s, expira 8s (3 repetições)"),
            Rec("short_term", "Priorização por urgência e blocos de estudo"),
            Rec("professional", "Marca consulta no Gabinete de Apoio ao Estudante") >>
    ELSE IF stress > 4000
    THEN << Rec("immediate", "PAUSA ATIVA: 5min a caminhar ou alongar"),
            Rec("short_term", "Planeamento semanal com blocos de 2h"),
            Rec("professional", "Diário emocional: regista emoções e gatilhos") >>
    ELSE IF valence < 3000
    THEN << Rec("immediate", "MÚSICA + MOVIMENTO: 1 música que gostes + movimento breve"),
            Rec("short_term", "Exposição à luz natural 15min/dia"),
            Rec("professional", "Conecta com alguém de confiança") >>
    ELSE << Rec("immediate", "Aproveita estado de flow para tarefas que exigem foco"),
            Rec("short_term", "Técnica Feynman para consolidar conhecimento"),
            Rec("professional", "Explora workshops e iniciativas de desenvolvimento pessoal") >>

TransitionBlock ==
    Rec("short_term", "BLOCO DE TRANSIÇÃO: 15min entre compromissos para recuperação")

\* " ".join(calendar_suggestions)
JoinSpace(xs) == JoinWith(xs, " ")

\* FeedbackAgent._heuristic_feedback
heuristic_feedback(emotion_summary, calendar_suggestions) ==
    LET stress == emotion_summary.stress_score
        valence == emotion_summary.valence
        dominant == Lower(Str(emotion_summary.dominant))
        triple == HeuristicTriple(stress, valence, dominant)
        calendar_context == Lower(JoinSpace(calendar_suggestions))
        recommendations ==
            IF /\ calendar_suggestions # <<>>
               /\ \E word \in {"reunião", "aula", "evento", "compromisso"} :
                      Contains(calendar_context, word)
               /\ stress > 5000
            THEN Append(triple, TransitionBlock)
            ELSE triple
    IN  [recommendations |-> Take(recommendations, 3),
         follow_up_prompt |-> "Como te sentes em relação a estas sugestões? Alguma faz particular sentido para ti?",
         source |-> "heuristic_evidence_based"]

\* FeedbackAgent.__init__ with the environment's OPENROUTER_API_KEY and
\* OPENROUTER_RETRIES
FeedbackAgentInit(api_key, max_retries) ==
    [api_key |-> api_key,
     request_timeout |-> 30,
     max_retries |-> max_retries,
     retry_backoff |-> 1,
     openrouter_available |-> ~Falsy(api_key)]

\* what one POST to the remote service comes to in _call_openrouter: a
\* transport error, a status other than 200, no extractable content, no
\* parseable JSON, a parsed value of the wrong shape, or a mapping with n
\* recommendations
Resp(kind, n) == [kind |-> kind, n |-> n]

RemoteRec(i) == Rec("immediate", "remote recommendation " \o ToString(i))

\* a response whose content parsed to a value of the given shape: "null"
\* (nothing parsed), "empty_mapping" ({}), "list" (a non-empty list),
\* "mapping_without_key", "mapping_key_not_list" (recommendations is no
\* list), "mapping" (recommendations is a list of n items)
ParsedResp(shape, n) == [kind |-> "parsed", n |-> n, shape |-> shape]

\* a validation that forgets the length test of line 162
ValidateParsedNoLengthTest(resp) ==
    IF resp.shape \in {"null", "empty_mapping"}
    THEN [raised |-> TRUE, exc |-> "Resposta não contém JSON válido", result |-> PyNone]
    ELSE IF resp.shape = "list"
    THEN [raised |-> TRUE, exc |-> "Formato de resposta inválido", result |-> PyNone]
    ELSE IF resp.shape = "mapping_without_key"
    THEN [raised |-> TRUE, exc |-> "Estrutura de resposta inválida", result |-> PyNone]
    ELSE IF resp.shape = "mapping_key_not_list"
    THEN [raised |-> TRUE, exc |-> "Recomendações inválidas", result |-> PyNone]
    ELSE [raised |-> FALSE, exc |-> PyNone,
          result |-> [recommendations |-> [i \in 1..resp.n |-> RemoteRec(i)],
                      follow_up_prompt |-> "remote follow-up",
                      source |-> "openrouter"]]

\* lines 144-168: the tests on the parsed result
ValidateParsed(resp) ==
    IF resp.shape \in {"null", "empty_mapping"}
    THEN [raised |-> TRUE, exc |-> "Resposta não contém JSON válido", result |-> PyNone]
    ELSE IF resp.shape = "list"
    THEN [raised |-> TRUE, exc |-> "Formato de resposta inválido", result |-> PyNone]
    ELSE IF resp.shape = "mapping_without_key"
    THEN [raised |-> TRUE, exc |-> "Estrutura de resposta inválida", result |-> PyNone]
    ELSE IF resp.shape = "mapping_key_not_list" \/ resp.n = 0
    THEN [raised |-> TRUE, exc |-> "Recomendações inválidas", result |-> PyNone]
    ELSE [raised |-> FALSE, exc |-> PyNone,
          result |-> [recommendations |-> [i \in 1..resp.n |-> RemoteRec(i)],
                      follow_up_prompt |-> "remote follow-up",
                      source |-> "openrouter"]]

\* FeedbackAgent._call_openrouter on one response
call_openrouter(resp) ==
    IF resp.kind = "parsed" THEN ValidateParsed(resp) ELSE
    IF resp.kind = "transport_error"
    THEN [raised |-> TRUE, exc |-> "RequestError", result |-> PyNone]
    ELSE IF resp.kind = "status_401"
    THEN [raised |-> TRUE, exc |-> "API key inválida ou não autorizada", result |-> PyNone]
    ELSE IF resp.kind = "status_429"
    THEN [raised |-> TRUE, exc |-> "Rate limit excedido", result |-> PyNone]
    ELSE IF resp.kind = "status_500"
    THEN [raised |-> TRUE, exc |-> "Erro HTTP 500", result |-> PyNone]
    ELSE IF resp.kind = "no_content"
    THEN [raised |-> TRUE, exc |-> "Resposta da API vazia ou inválida", result |-> PyNone]
    ELSE IF resp.kind = "no_json"
    THEN [raised |-> TRUE, exc |-> "Resposta não contém JSON válido", result |-> PyNone]
    ELSE IF resp.kind = "not_dict"
    THEN [raised |-> TRUE, exc |-> "Formato de resposta inválido", result |-> PyNone]
    ELSE IF resp.kind = "no_recommendations_key"
    THEN [raised |-> TRUE, exc |-> "Estrutura de resposta inválida", result |-> PyNone]
    ELSE IF resp.kind = "recommendations_not_list" \/ resp.n = 0
    THEN [raised |-> TRUE, exc |-> "Recomendações inválidas", result |-> PyNone]
    ELSE [raised |-> FALSE, exc |-> PyNone,
          result |-> [recommendations |-> [i \in 1..resp.n |-> RemoteRec(i)],
                      follow_up_prompt |-> "remote follow-up",
                      source |-> "openrouter"]]

\* the loop with a sleep after every failed attempt, the last one included
RECURSIVE RetryLoopSleepAlways(_, _, _, _, _)
RetryLoopSleepAlways(agent, resps, attempt, last_exc, trace) ==
    IF attempt > agent.max_retries
    THEN [raised |-> TRUE,
          exc |-> IF last_exc # PyNone THEN last_exc ELSE "Unknown OpenRouter error",
          result |-> PyNone, trace |-> trace]
    ELSE LET r == call_openrouter(resps[attempt])
             t1 == Append(trace, [ev |-> "attempt", arg |-> attempt])
         IN  IF ~r.raised
             THEN [raised |-> FALSE, exc |-> PyNone, result |-> r.result, trace |-> t1]
             ELSE LET backoff == agent.retry_backoff * (2 ^ (attempt - 1))
                      t2 == Append(t1, [ev |-> "sleep", arg |-> backoff])
                  IN  RetryLoopSleepAlways(agent, resps, attempt + 1, r.exc, t2)

\* the loop ending without its final raise when no attempt was made
RECURSIVE RetryLoopNoFinalRaise(_, _, _, _, _)
RetryLoopNoFinalRaise(agent, resps, attempt, last_exc, trace) ==
    IF attempt > agent.max_retries
    THEN IF last_exc = PyNone
         THEN [raised |-> FALSE, exc |-> PyNone, result |-> PyNone, trace |-> trace]
         ELSE [raised |-> TRUE, exc |-> last_exc, result |-> PyNone, trace |-> trace]
    ELSE LET r == call_openrouter(resps[attempt])
             t1 == Append(trace, [ev |-> "attempt", arg |-> attempt])
         IN  IF ~r.raised
             THEN [raised |-> FALSE, exc |-> PyNone, result |-> r.result, trace |-> t1]
             ELSE LET backoff == agent.retry_backoff * (2 ^ (attempt - 1))
                      t2 == IF attempt < agent.max_retries
                            THEN Append(t1, [ev |-> "sleep", arg |-> backoff])
                            ELSE t1
                  IN  RetryLoopNoFinalRaise(agent, resps, attempt + 1, r.exc, t2)

\* the loop of _call_openrouter_with_retries from attempt on; resps[k] is the
\* response the k-th POST meets; trace lists the attempts and the sleeps
RECURSIVE RetryLoop(_, _, _, _, _)
RetryLoop(agent, resps, attempt, last_exc, trace) ==
    IF attempt > agent.max_retries
    THEN [raised |-> TRUE,
          exc |-> IF last_exc # PyNone THEN last_exc ELSE "Unknown OpenRouter error",
          result |-> PyNone, trace |-> trace]
    ELSE LET r == call_openrouter(resps[attempt])
             t1 == Append(trace, [ev |-> "attempt", arg |-> attempt])
         IN  IF ~r.raised
             THEN [raised |-> FALSE, exc |-> PyNone, result |-> r.result, trace |-> t1]
             ELSE LET backoff == agent.retry_backoff * (2 ^ (attempt - 1))
                      t2 == IF attempt < agent.max_retries
                            THEN Append(t1, [ev |-> "sleep", arg |-> backoff])
                            ELSE t1
                  IN  RetryLoop(agent, resps, attempt + 1, r.exc, t2)

call_openrouter_with_retries(agent, resps) ==
    RetryLoop(agent, resps, 1, PyNone, <<>>)

\* generate_feedback that tries the remote service without looking at
\* openrouter_available
GenerateFeedbackAlwaysRemote(agent, emotion_summary, calendar_suggestions, resps) ==
    LET r == call_openrouter_with_retries(agent, resps)
    IN  IF ~r.raised
        THEN [result |-> r.result, trace |-> r.trace, producer |-> "remote"]
        ELSE [result |-> heuristic_feedback(emotion_summary, calendar_suggestions),
              trace |-> r.trace, producer |-> "heuristic"]

\* generate_feedback that lets the error of the remote call reach its caller
GenerateFeedbackReraise(agent, emotion_summary, calendar_suggestions, resps) ==
    IF agent.openrouter_available
    THEN LET r == call_openrouter_with_retries(agent, resps)
         IN  IF ~r.raised
             THEN [result |-> r.result, trace |-> r.trace, producer |-> "remote"]
             ELSE [result |-> [recommendations |-> <<>>, follow_up_prompt |-> "",
                               source |-> r.exc],
                   trace |-> r.trace, producer |-> "raised"]
    ELSE [result |-> heuristic_feedback(emotion_summary, calendar_suggestions),
          trace |-> <<>>, producer |-> "heuristic"]

\* FeedbackAgent.generate_feedback: the returned envelope, the attempts and
\* sleeps made, and which generator produced the recommendations
generate_feedback(agent, emotion_summary, calendar_suggestions, resps) ==
    IF agent.openrouter_available
    THEN LET r == call_openrouter_with_retries(agent, resps)
         IN  IF ~r.raised
             THEN [result |-> r.result, trace |-> r.trace, producer |-> "remote"]
             ELSE [result |-> heuristic_feedback(emotion_summary, calendar_suggestions),
                   trace |-> r.trace, producer |-> "heuristic"]
    ELSE [result |-> heuristic_feedback(emotion_summary, calendar_suggestions),
          trace |-> <<>>, producer |-> "heuristic"]

\* how the event loop meets craft_message: found idle (run_until_complete),
\* found running and answering in time, found running with the bounded wait
\* expiring, none on this thread with asyncio.run working, none with
\* asyncio.run failing, found closed (run_until_complete raises RuntimeError
\* before it takes the coroutine, asyncio.run then works)
BridgeContexts ==
    {"idle", "running", "running_timeout", "no_loop", "no_loop_run_fails",
     "loop_closed"}

HeuristicFallback(emotion_summary, calendar_suggestions) ==
    [heuristic_feedback(emotion_summary, calendar_suggestions)
         EXCEPT !.source = "heuristic_fallback"]

\* the bridge without the two handlers that fall back: the expiry of the
\* wait and the error of asyncio.run reach the caller
CraftBridgeNoHandlers(agent, emotion_summary, calendar_suggestions, resps, bridge) ==
    LET g == generate_feedback(agent, emotion_summary, calendar_suggestions, resps)
    IN  IF bridge \in {"idle", "running", "no_loop", "loop_closed"}
        THEN g
        ELSE [result |-> [recommendations |-> <<>>, follow_up_prompt |-> "",
                          source |-> ""],
              trace |-> IF bridge = "running_timeout" THEN g.trace ELSE <<>>,
              producer |-> "raised"]

\* the part of craft_message after the openrouter_available test
CraftBridge(agent, emotion_summary, calendar_suggestions, resps, bridge) ==
    LET g == generate_feedback(agent, emotion_summary, calendar_suggestions, resps)
    IN  IF bridge \in {"idle", "running", "no_loop", "loop_closed"}
        THEN g
        ELSE IF bridge = "running_timeout"
        THEN \* the submitted coroutine goes on in the loop; the caller falls back
             [result |-> HeuristicFallback(emotion_summary, calendar_suggestions),
              trace |-> g.trace, producer |-> "heuristic"]
        ELSE \* asyncio.run raised before the coroutine ran
             [result |-> HeuristicFallback(emotion_summary, calendar_suggestions),
              trace |-> <<>>, producer |-> "heuristic"]

\* craft_message without the openrouter_available test
CraftMessageNoKeyTest(agent, emotion_summary, calendar_suggestions, resps, bridge) ==
    CraftBridge([agent EXCEPT !.openrouter_available = TRUE],
                emotion_summary, calendar_suggestions, resps, bridge)

\* FeedbackAgent.craft_message
craft_message(agent, emotion_summary, calendar_suggestions, resps, bridge) ==
    IF ~agent.openrouter_available
    THEN [result |-> HeuristicFallback(emotion_summary, calendar_suggestions),
          trace |-> <<>>, producer |-> "heuristic"]
    ELSE CraftBridge(agent, emotion_summary, calendar_suggestions, resps, bridge)

\* the number of POSTs in a trace
Attempts(trace) == Cardinality({i \in 1..Len(trace) : trace[i].ev = "attempt"})

----------------------------------------------------------------------------
(* agents/interface_agent.py                                               *)

AnyIn(words, lower) == \E w \in words : Contains(lower, w)

\* the emotion words of extract_intent in the order of emotions_map
emotions_map ==
    << <<"stress", "stress">>, <<"stressado", "stress">>,
       <<"ansioso", "ansiedade">>, <<"ansiosa", "ansiedade">>,
       <<"cansado", "cansaço">>, <<"exausto", "exaustão">>,
       <<"triste", "tristeza">>, <<"feliz", "felicidade">> >>

\* the first entry of emotions_map found in the text, from entry i on
RECURSIVE ExplicitEmotionFrom(_, _)
ExplicitEmotionFrom(lower, i) ==
    IF i > Len(emotions_map) THEN PyNone
    ELSE IF Contains(lower, emotions_map[i][1]) THEN emotions_map[i][2]
    ELSE ExplicitEmotionFrom(lower, i + 1)

DigitChars == "0123456789"

IsDigit(c) == \E d \in 1..10 : SubSeq(DigitChars, d, d) = c

DigitVal(c) == (CHOOSE d \in 1..10 : SubSeq(DigitChars, d, d) = c) - 1

\* int() of the digits t[i..j]
RECURSIVE ParseInt(_, _, _)
ParseInt(t, i, j) ==
    IF i > j THEN 0
    ELSE 10 * ParseInt(t, i, j - 1) + DigitVal(SubSeq(t, j, j))

\* the last index of the run of digits that starts at i
RunEnd(t, i) ==
    CHOOSE j \in i..Len(t) :
        /\ \A m \in i..j : IsDigit(SubSeq(t, m, m))
        /\ j = Len(t) \/ ~IsDigit(SubSeq(t, j + 1, j + 1))

\* (\d+)\s*(h|horas) matches at i
SleepMatchAt(t, i) ==
    /\ IsDigit(SubSeq(t, i, i))
    /\ \E k \in (RunEnd(t, i) + 1)..Len(t) :
           /\ SubSeq(t, k, k) = "h"
           /\ \A m \in (RunEnd(t, i) + 1)..(k - 1) : IsSpace(SubSeq(t, m, m))

\* slots["sleep_hours"]: None, or the int of group 1 of the leftmost match
NoHours == [none |-> TRUE, v |-> 0]

SleepHours(lower) ==
    LET starts == {i \in 1..Len(lower) : SleepMatchAt(lower, i)}
    IN  IF starts = {} THEN NoHours
        ELSE LET i == CHOOSE a \in starts : \A b \in starts : a <= b
             IN  [none |-> FALSE, v |-> ParseInt(lower, i, RunEnd(lower, i))]

\* the keys of the slots dict of extract_intent
SlotKeys == {"sleep_hours", "tasks", "deadline", "explicit_emotion"}

\* InterfaceAgent.extract_intent: raw_text and the slots sleep_hours, tasks,
\* deadline (TRUE for True, FALSE for None) and explicit_emotion
extract_intent(text) ==
    LET lower == Lower(text)
        tasks1 == IF AnyIn({"estudar", "tarefa", "trabalho", "projeto"}, lower)
                  THEN <<"referência a estudo/trabalho">> ELSE <<>>
        deadline == Contains(lower, "prazo") \/ Contains(lower, "deadline")
        tasks2 == IF deadline THEN Append(tasks1, "tem prazos") ELSE tasks1
    IN  [raw_text |-> text,
         slots |-> [sleep_hours |-> SleepHours(lower),
                    tasks |-> tasks2, deadline |-> deadline,
                    explicit_emotion |-> ExplicitEmotionFrom(lower, 1)],
         confidence |-> 85]

\* a result of handle_input: keys are the keys of the dict, error and
\* raw_text are None when their key is absent, slot_keys are the keys of
\* slots ({} has none)
NoSlots ==
    [sleep_hours |-> NoHours, tasks |-> <<>>, deadline |-> FALSE,
     explicit_emotion |-> PyNone]

ErrorResult(error, keys) ==
    [raised |-> FALSE, keys |-> keys, error |-> error, raw_text |-> PyNone,
     slots |-> NoSlots, slot_keys |-> {}, confidence |-> 0]

IntentResult(text) ==
    [raised |-> FALSE, keys |-> {"raw_text", "slots", "confidence"},
     error |-> PyNone, raw_text |-> extract_intent(text).raw_text,
     slots |-> extract_intent(text).slots, slot_keys |-> SlotKeys,
     confidence |-> extract_intent(text).confidence]

\* extract_intent called on its own: None has no lower()
ExtractIntentCallResult(text) ==
    IF text = PyNone
    THEN [raised |-> TRUE, keys |-> {}, error |-> "AttributeError",
          raw_text |-> PyNone, slots |-> NoSlots, slot_keys |-> {},
          confidence |-> 0]
    ELSE IntentResult(text)

\* what the audio argument comes to: None, speech-to-text unavailable, a
\* transcription, nothing transcribed (transcribe_audio returns "")
AudioCases == {"none", "stt_unavailable", "transcribed", "untranscribable"}

\* handle_input that hands every text to extract_intent
HandleInputNoBlankTest(text, audio, heard) ==
    IF audio = "stt_unavailable"
    THEN ErrorResult("Speech-to-text not available - install SpeechRecognition",
                     {"error", "text", "slots", "confidence"})
    ELSE IF audio = "transcribed" /\ ~Falsy(heard) /\ ~Falsy(Strip(heard))
    THEN IntentResult(heard)
    ELSE IF audio \in {"transcribed", "untranscribable"}
    THEN ErrorResult("Could not transcribe audio",
                     {"error", "text", "slots", "confidence"})
    ELSE ExtractIntentCallResult(text)

\* InterfaceAgent.handle_input; heard is what transcribe_audio returns
handle_input(text, audio, heard) ==
    IF audio = "stt_unavailable"
    THEN ErrorResult("Speech-to-text not available - install SpeechRecognition",
                     {"error", "text", "slots", "confidence"})
    ELSE IF audio = "transcribed" /\ ~Falsy(heard) /\ ~Falsy(Strip(heard))
    THEN IntentResult(heard)
    ELSE IF audio \in {"transcribed", "untranscribable"}
    THEN ErrorResult("Could not transcribe audio",
                     {"error", "text", "slots", "confidence"})
    ELSE IF Falsy(text) \/ Strip(text) = ""
    THEN ErrorResult("No input provided", {"error", "slots", "confidence"})
    ELSE IntentResult(text)

----------------------------------------------------------------------------
(* agents/calendar_agent.py                                                *)

\* a calendar event: its subject and its duration in hours
Event(i) == [subject |-> "Aula " \o ToString(i), hours |-> 2]

EventsOf(k) == [i \in 1..k |-> Event(i)]

\* CalendarAgent.__init__: calendar is whether a default calendar was found
CalendarAgentInit(has_calendar) ==
    [calendar |-> has_calendar, events_cache |-> <<>>]

\* CalendarAgent.get_upcoming_events; fetched is the list the service
\* returns, fails is whether the fetch raises.  The returned list and the agent.
get_upcoming_events(agent, fetched, fails) ==
    IF ~agent.calendar
    THEN [ret |-> agent.events_cache, agent |-> agent]
    ELSE IF fails
    THEN [ret |-> agent.events_cache, agent |-> agent]
    ELSE [ret |-> fetched, agent |-> [agent EXCEPT !.events_cache = fetched]]

RECURSIVE TotalHours(_)
TotalHours(events) ==
    IF events = <<>> THEN 0 ELSE Head(events).hours + TotalHours(Tail(events))

\* CalendarAgent.analyze_daily_load
analyze_daily_load(events) ==
    IF events = <<>>
    THEN [daily_events |-> 0, total_hours |-> 0, load_level |-> "light"]
    ELSE LET daily_count == Len(events)
             total_hours == TotalHours(events)
         IN  [daily_events |-> daily_count,
              total_hours |-> total_hours,
              load_level |-> IF daily_count <= 2 \/ total_hours <= 2 THEN "light"
                             ELSE IF daily_count <= 5 \/ total_hours <= 6 THEN "medium"
                             ELSE "heavy"]

\* CalendarAgent.find_free_slots
find_free_slots(events) ==
    IF events = <<>> THEN <<"09:00-18:00">>
    ELSE <<"09:00-10:00", "14:00-15:00", "16:00-17:00">>

\* CalendarAgent.suggest_plan
suggest_plan(emotion_summary, events) ==
    LET stress_score == emotion_summary.stress_score
        daily_load == analyze_daily_load(events)
        by_stress ==
            IF stress_score > 7000
            THEN << "Prioridade: Fazer pausas de 5-10min a cada 45min de estudo",
                    "Exercício de respiração 4-7-8: 4s inspirar, 7s segurar, 8s expirar",
                    "Beber água regularmente e evitar cafeína em excesso" >>
            ELSE IF stress_score > 4000
            THEN << "Fazer pausas curtas: 5min a cada 50min de estudo",
                    "Caminhar 10min ao ar livre durante as pausas",
                    "Ouvir música relaxante durante as pausas" >>
            ELSE << "Manter blocos de foco de 90min com 15min de descanso",
                    "Revisão rápida do plano do dia a cada manhã" >>
        by_load ==
            IF daily_load.load_level = "heavy"
            THEN << "⚡ Carga pesada: " \o ToString(daily_load.daily_events)
                        \o " eventos - considerar priorização",
                    "Usar técnica Pomodoro: 25min foco, 5min pausa" >>
            ELSE IF daily_load.load_level = "medium"
            THEN << "Carga moderada: " \o ToString(daily_load.daily_events)
                        \o " eventos - manter organização" >>
            ELSE <<>>
        free_slots == find_free_slots(events)
        free == IF free_slots # <<>>
                THEN << "⏰ Slots livres disponíveis: "
                            \o JoinWith(Take(free_slots, 2), ", ") >>
                ELSE <<>>
    IN  by_stress \o by_load \o free

----------------------------------------------------------------------------
(* coordinator.py                                                          *)

\* Coordinator._extract_emotion_scores on a classifier result: the shapes are
\* a falsy result ("None"), a non-dict ("list"), a dict with "emotion", a dict
\* with "stress_score" ("flat"), a dict with raw.emotion ("raw"), another dict
extract_emotion_scores(emo_obj) ==
    LET out == [stress_score |-> 0, valence |-> 0, dominant |-> PyNone]
        ToFloat(x) == IF x.t = "float" THEN x.v ELSE 0
    IN  IF emo_obj.shape \notin {"emotion", "flat", "raw"} THEN out
        ELSE LET emo == emo_obj.emotion
             IN  IF ~emo.isdict THEN out
                 ELSE IF emo.stress_score.t = "str" THEN out
                 ELSE IF emo.valence.t = "str"
                 THEN [out EXCEPT !.stress_score = ToFloat(emo.stress_score)]
                 ELSE [stress_score |-> ToFloat(emo.stress_score),
                       valence |-> ToFloat(emo.valence),
                       dominant |-> emo.dominant]

\* a clamp that forgets the lower bound
ClampUpperOnly(x) == Min(One, x)

\* max(0.0, min(1.0, x))
Clamp01(x) == Max(0, Min(One, x))

\* Coordinator._extract_tasks_from_text
extract_tasks_from_text(text, slots) ==
    LET from_slots == slots.tasks
        lower_text == Lower(text)
        study == IF AnyIn({"estudar", "estudo", "revisar", "ler", "aprender"}, lower_text)
                 THEN <<"Estudo/Revisão">> ELSE <<>>
        project == IF AnyIn({"projeto", "trabalho", "assignment", "tarefa"}, lower_text)
                   THEN <<"Trabalho de Projeto">> ELSE <<>>
        exercise == IF AnyIn({"exercício", "correr", "ginásio", "yoga", "desporto"}, lower_text)
                    THEN <<"Exercício Físico">> ELSE <<>>
        tasks == from_slots \o study \o project \o exercise
    IN  Take(IF tasks = <<>>
             THEN <<"Estudo", "Revisão", "Exercícios", "Planeamento">>
             ELSE tasks, 4)

\* a fallback that forgets the slot budget
ScheduleFallbackAllTasks(tasks, available_slots) ==
    [i \in 1..Len(tasks) |-> "Tarefa: " \o tasks[i]]

\* [f"Tarefa: {task}" for task in tasks[:available_slots]]
ScheduleFallback(tasks, available_slots) ==
    [i \in 1..Min(Len(tasks), available_slots) |-> "Tarefa: " \o tasks[i]]

default_response ==
    [recommendations |->
        << Rec("immediate", "Faz uma pausa de 5 minutos e respira profundamente."),
           Rec("short_term", "Organiza as tuas tarefas por prioridade."),
           Rec("professional", "Mantém um diário das tuas emoções e progresso.") >>,
     follow_up_prompt |-> "Como te sentes após estas sugestões?",
     source |-> "Heuristic"]

\* what the feedback agent does when the coordinator calls it: craft is "ok"
\* for the agent's own craft_message, "raises" and "raises_twice" for a
\* craft_message that raises (and a _heuristic_feedback that raises too),
\* "invalid" for a result without recommendations
CraftBehaviours == {"ok", "raises", "raises_twice", "invalid"}

\* Coordinator._safe_generate_feedback: the message, and for the record the
\* attempts made and the generator that produced the recommendations
safe_generate_feedback(fb, emotion_summary, calendar_suggestions, craft, resps, bridge) ==
    IF fb.none
    THEN [message |-> default_response, trace |-> <<>>, producer |-> "default"]
    ELSE IF craft = "raises"
    THEN [message |-> [heuristic_feedback(emotion_summary, calendar_suggestions)
                           EXCEPT !.source = "Heuristic (Fallback)"],
          trace |-> <<>>, producer |-> "heuristic"]
    ELSE IF craft = "raises_twice"
    THEN [message |-> default_response, trace |-> <<>>, producer |-> "default"]
    ELSE IF craft = "invalid"
    THEN [message |-> default_response, trace |-> <<>>, producer |-> "default"]
    ELSE LET c == craft_message(fb.agent, emotion_summary,
                                calendar_suggestions, resps, bridge)
         IN  IF c.result.recommendations # <<>>
             THEN [message |->
                      [c.result EXCEPT !.source =
                          IF Contains(Lower(Str(c.result.source)), "openrouter")
                          THEN "LLM (OpenRouter)" ELSE "LLM"],
                   trace |-> c.trace, producer |-> c.producer]
             ELSE [message |-> default_response, trace |-> c.trace,
                   producer |-> "default"]

\* Coordinator._get_empty_response
get_empty_response ==
    [emotion |-> [stress_score |-> 0, valence |-> 0, dominant |-> "unknown"],
     optimized_schedule |-> [schedule |-> <<>>, notes |-> "No input provided"],
     events |-> <<>>,
     message |-> [recommendations |-> <<>>,
                  follow_up_prompt |-> "Please provide some input.",
                  source |-> "System"],
     success |-> FALSE]

\* Coordinator._get_error_response
get_error_response(error_msg) ==
    [emotion |-> [stress_score |-> 0, valence |-> 0, dominant |-> "unknown"],
     optimized_schedule |-> [schedule |-> <<>>, notes |-> "Error: " \o error_msg],
     events |-> <<>>,
     message |-> [recommendations |->
                      << Rec("immediate", "Ocorreu um erro. Por favor, tenta novamente.") >>,
                  follow_up_prompt |-> "Desculpa pelo inconveniente. Podes tentar novamente?",
                  source |-> "System"],
     success |-> FALSE]

\* an outer handler that lets the exception go to the caller
OuterExceptReraise(error_msg) ==
    [raised |-> TRUE, response |-> [none |-> TRUE]]

\* an outer handler that answers with the envelope of blank input
OuterExceptEmpty(error_msg) ==
    [raised |-> FALSE, response |-> get_empty_response]

\* the except clause of the outer try of handle_text
OuterExcept(error_msg) ==
    [raised |-> FALSE, response |-> get_error_response(error_msg)]

\* a test that forgets strip()
IsBlankInputNoStrip(text) == Falsy(text)

\* not text or not text.strip()
IsBlankInput(text) == Falsy(text) \/ Falsy(Strip(text))

----------------------------------------------------------------------------
(* bfs_schedule on its own: every task list and budget within the bounds   *)

MaxTasks == 3
MaxBudget == 4

TaskPool == {"Estudo", "Trabalho de Projeto", "Planeamento"}

TaskLists == UNION {[1..n -> TaskPool] : n \in 0..MaxTasks}

BfsInit ==
    /\ bpc = "call"
    /\ bTasks \in TaskLists
    /\ bBudget \in 0..MaxBudget
    /\ bResult = <<>>

BfsIdle ==
    /\ bpc = "idle"
    /\ bTasks = <<>>
    /\ bBudget = 0
    /\ bResult = <<>>

BfsCall ==
    /\ bpc = "call"
    /\ bResult' = bfs_schedule(bTasks, bBudget)
    /\ bpc' = "done"
    /\ UNCHANGED <<bTasks, bBudget>>

----------------------------------------------------------------------------
(* calculate_stress_slots on its own                                       *)

\* stress levels, with the band edges and values off the scale
StressLevels ==
    {-1000, 0, 1000, 3999, 4000, 4001, 5000, 6999, 7000, 7001, 8000, 10000, 12000}

SlotsInit ==
    /\ spc = "call"
    /\ sLevel1 \in StressLevels
    /\ sLevel2 \in StressLevels
    /\ sSlots1 = 0
    /\ sSlots2 = 0

SlotsIdle ==
    /\ spc = "idle"
    /\ sLevel1 = 0
    /\ sLevel2 = 0
    /\ sSlots1 = 0
    /\ sSlots2 = 0

SlotsCall ==
    /\ spc = "call"
    /\ sSlots1' = calculate_stress_slots(sLevel1)
    /\ sSlots2' = calculate_stress_slots(sLevel2)
    /\ spc' = "done"
    /\ UNCHANGED <<sLevel1, sLevel2>>

----------------------------------------------------------------------------
(* EmotionAgent.classify on its own                                        *)

MaxFragments == 2

\* pieces of user text: neutral, stressed, exhausted, positive
EmotionFragments ==
    { "hoje", "estou muito stressado,", "tenho muitos exames", "Estou FELIZ",
      "sinto-me cansado", "estou no limite",
      "feliz alegre contente grato animado sorriso bem bom" }

JoinWords(ws) == JoinWith(ws, " ")

EmotionTexts ==
    {PyNone, "", "  ", " \n"}
    \cup {JoinWords(ws) : ws \in UNION {[1..n -> EmotionFragments] : n \in 1..MaxFragments}}

NoResult == [raised |-> FALSE, value |-> [shape |-> "None"]]

\* texts for the heuristic: no keyword; a phrase with no keyword counted;
\* a phrase with one keyword; a phrase with a count of 4; weighted counts of
\* 1, 2, 3, 4, 5 and 6 with no phrase; valence words with and without
\* stress words; the words of the test of line 221
HeuristicTexts ==
    { "", "hoje", "vou ter um ataque", "Sinto-me  cansado", "estou no limite",
      "tenho um teste", "ansiedade", "teste e ansiedade", "desesperado",
      "um pouco de stress", "preocupado", "sobrecarregado mas feliz",
      "desesperado antes do teste", "desesperado, com ansiedade",
      "estou feliz", "feliz mas com um teste",
      "feliz alegre contente grato animado sorriso bem bom" }

HeuristicInit ==
    /\ epc = "call"
    /\ eAgent \in {EmotionAgentInit(use_hf) : use_hf \in BOOLEAN}
    /\ eEnv \in HfEnvs
    /\ eText \in HeuristicTexts
    /\ eResult = NoResult

EmotionInit ==
    /\ epc = "call"
    /\ eAgent \in {EmotionAgentInit(use_hf) : use_hf \in BOOLEAN}
    /\ eEnv \in HfEnvs
    /\ eText \in EmotionTexts
    /\ eResult = NoResult

EmotionIdle ==
    /\ epc = "idle"
    /\ eAgent = EmotionAgentInit(FALSE)
    /\ eEnv = "ok"
    /\ eText = ""
    /\ eResult = NoResult

ClassifyCall ==
    /\ epc = "call"
    /\ \E o \in classify(eAgent, eText, eEnv) :
           /\ eResult' = o.result
           /\ eAgent' = o.agent
    /\ epc' = "done"
    /\ UNCHANGED <<eEnv, eText>>

----------------------------------------------------------------------------
(* FeedbackAgent.craft_message and generate_feedback on their own          *)

MaxRetries == 3

ApiKeys == {PyNone, "", "sk-or-test"}

\* the responses a POST can meet: failures of each stage of _call_openrouter
\* (transport, status, content, JSON, an empty recommendations list) and
\* well-formed answers with 2 and with 4 recommendations
Responses ==
    { Resp("transport_error", 0), Resp("status_500", 0), Resp("no_content", 0),
      Resp("no_json", 0), Resp("ok", 0), Resp("ok", 2), Resp("ok", 4) }

Summary(stress, valence, dominant) ==
    [stress_score |-> stress, valence |-> valence, dominant |-> dominant]

FeedbackSummaries ==
    { Summary(One, 0, "alto_stress"), Summary(6500, 3000, "stress"),
      Summary(0, 0, PyNone) }

FeedbackSuggestions ==
    { <<>>, <<"Carga moderada: 3 eventos - manter organização">> }

NoOut == [result |-> [recommendations |-> <<>>, follow_up_prompt |-> "",
                      source |-> ""],
          trace |-> <<>>, producer |-> ""]

FeedbackInit ==
    /\ fpc = "call"
    /\ fAgent \in {FeedbackAgentInit(k, m) : k \in ApiKeys, m \in 0..MaxRetries}
    /\ fEntry \in {"craft_message", "generate_feedback"}
                  \cup (IF fAgent.openrouter_available
                        THEN {"_call_openrouter_with_retries"} ELSE {})
    /\ fSummary \in FeedbackSummaries
    /\ fSuggestions \in FeedbackSuggestions
    /\ fResps \in [1..fAgent.max_retries -> Responses]
    /\ fBridge \in IF fEntry = "craft_message" THEN BridgeContexts ELSE {"idle"}
    /\ fOut = NoOut

FeedbackIdle ==
    /\ fpc = "idle"
    /\ fAgent = FeedbackAgentInit(PyNone, 0)
    /\ fEntry = ""
    /\ fSummary = Summary(0, 0, PyNone)
    /\ fSuggestions = <<>>
    /\ fResps = <<>>
    /\ fBridge = "idle"
    /\ fOut = NoOut

CraftMessageCall ==
    /\ fpc = "call"
    /\ fEntry = "craft_message"
    /\ fOut' = craft_message(fAgent, fSummary, fSuggestions, fResps, fBridge)
    /\ fpc' = "done"
    /\ UNCHANGED <<fAgent, fEntry, fSummary, fSuggestions, fResps, fBridge>>

GenerateFeedbackCall ==
    /\ fpc = "call"
    /\ fEntry = "generate_feedback"
    /\ fOut' = generate_feedback(fAgent, fSummary, fSuggestions, fResps)
    /\ fpc' = "done"
    /\ UNCHANGED <<fAgent, fEntry, fSummary, fSuggestions, fResps, fBridge>>

\* the parsed shapes a POST can come back with
ValidationResponses ==
    { ParsedResp("empty_mapping", 0), ParsedResp("list", 0),
      ParsedResp("mapping_without_key", 0),
      ParsedResp("mapping_key_not_list", 0),
      ParsedResp("mapping", 0), ParsedResp("mapping", 2) }

\* the three entry points on an agent with a key and OPENROUTER_RETRIES set
\* to 0 or to a negative number
NoRetriesInit ==
    /\ fpc = "call"
    /\ fAgent \in {FeedbackAgentInit("sk-or-test", m) : m \in {-1, 0}}
    /\ fEntry \in {"craft_message", "generate_feedback",
                   "_call_openrouter_with_retries"}
    /\ fSummary \in FeedbackSummaries
    /\ fSuggestions \in FeedbackSuggestions
    /\ fResps = <<>>
    /\ fBridge \in IF fEntry = "craft_message" THEN BridgeContexts ELSE {"idle"}
    /\ fOut = NoOut

\* the three entry points on an agent with a key, every POST answered with
\* status 200 and parseable content
ValidationInit ==
    /\ fpc = "call"
    /\ fAgent \in {FeedbackAgentInit("sk-or-test", m) : m \in 1..MaxRetries}
    /\ fEntry \in {"craft_message", "generate_feedback",
                   "_call_openrouter_with_retries"}
    /\ fSummary = Summary(6500, 3000, "stress")
    /\ fSuggestions = <<>>
    /\ fResps \in [1..fAgent.max_retries -> ValidationResponses]
    /\ fBridge \in IF fEntry = "craft_message" THEN {"idle", "running"}
                   ELSE {"idle"}
    /\ fOut = NoOut

----------------------------------------------------------------------------
(* Coordinator.handle_text, stage by stage                                 *)

MaxEvents == 6

\* the sizes of the event lists the calendar service returns
FetchCounts == {0, MaxEvents}

PipelineTexts ==
    { PyNone, "", "   ", " \t\n",
      "estou muito stressado, tenho muitos exames",
      "hoje estou feliz" }

\* what classify can come to, past its first statements, besides the
\* EmotionAgent's own result: an exception, None, an "emotion" that is no
\* dict, scores off the scale in the flat shape, a nested result with
\* fine-grained scores, a valence float() rejects
Emo(stress, valence, dominant) ==
    [isdict |-> TRUE, stress_score |-> stress, valence |-> valence,
     dominant |-> dominant]

NoEmo == [isdict |-> FALSE, stress_score |-> NoScore, valence |-> NoScore,
          dominant |-> PyNone]

\* emo_raw = {} of line 195, and a classifier result of None
EmptyEmoRaw == [shape |-> "None", emotion |-> NoEmo]

OddClassifierResults ==
    { [raised |-> TRUE, value |-> EmptyEmoRaw],
      [raised |-> FALSE, value |-> EmptyEmoRaw],
      [raised |-> FALSE, value |-> [shape |-> "emotion", emotion |-> NoEmo]],
      [raised |-> FALSE, value |-> [shape |-> "flat",
                                    emotion |-> Emo(F(15000), F(-2000), PyNone)]],
      [raised |-> FALSE, value |-> [shape |-> "raw",
                                    emotion |-> Emo(F(4567), F(1234), "fear")]],
      [raised |-> FALSE, value |-> [shape |-> "emotion",
                                    emotion |-> Emo(F(6500), BadScore, "stress")]] }

\* the responses the POSTs of one handle_text call meet
PipelineScripts ==
    { [i \in 1..MaxRetries |-> Resp("transport_error", 0)],
      [i \in 1..MaxRetries |-> Resp("ok", 4)],
      [i \in 1..MaxRetries |-> IF i = 1 THEN Resp("transport_error", 0)
                                ELSE Resp("ok", 2)] }

\* the callers' contexts the bridge of craft_message meets
PipelineBridges == {"idle", "running_timeout", "no_loop_run_fails"}

\* the script and the context of a call that makes no POST
NoScript == [i \in 1..MaxRetries |-> Resp("transport_error", 0)]

EmptySlots == NoSlots

NoMessage == [recommendations |-> <<>>, follow_up_prompt |-> "", source |-> ""]

NoResponse == [none |-> TRUE]

\* what _safe_generate_feedback was called with, once it has been called
NoFeedbackInput ==
    [given |-> FALSE,
     emotion_summary |-> [stress_score |-> 0, valence |-> 0, dominant |-> PyNone],
     calendar_suggestions |-> <<>>]

\* the locals of handle_text at entry
Frame(text) ==
    [text |-> text, raw_text |-> "", slots |-> EmptySlots,
     emo_raw |-> EmptyEmoRaw, stress_score |-> 0, valence |-> 0, dominant |-> PyNone,
     events |-> <<>>, tasks |-> <<>>, available_slots |-> 0, schedule |-> <<>>,
     calendar_suggestions |-> <<>>, feedback_input |-> NoFeedbackInput,
     message_obj |-> NoMessage]

\* Coordinator.__init__ / _initialize_agents: each agent is built or, when
\* its constructor raises, left None
CoordinatorInit ==
    /\ interface \in {[none |-> n] : n \in BOOLEAN}
    /\ emotion \in {[none |-> FALSE, agent |-> EmotionAgentInit(u)] : u \in BOOLEAN}
                   \cup {[none |-> TRUE, agent |-> EmotionAgentInit(FALSE)]}
    /\ calendar \in {[none |-> FALSE, agent |-> CalendarAgentInit(c)] : c \in BOOLEAN}
                    \cup {[none |-> TRUE, agent |-> CalendarAgentInit(FALSE)]}
    /\ feedback \in {[none |-> FALSE, agent |-> FeedbackAgentInit(k, MaxRetries)] :
                         k \in {PyNone, "sk-or-test"}}
                    \cup {[none |-> TRUE, agent |-> FeedbackAgentInit(PyNone, MaxRetries)]}
    /\ pc = "idle"
    /\ frame = Frame("")
    /\ response = NoResponse
    /\ raised = FALSE
    /\ faults = {}
    /\ outer = FALSE
    /\ producer = ""
    /\ netTrace = <<>>

CoordinatorIdle ==
    /\ interface = [none |-> TRUE]
    /\ emotion = [none |-> TRUE, agent |-> EmotionAgentInit(FALSE)]
    /\ calendar = [none |-> TRUE, agent |-> CalendarAgentInit(FALSE)]
    /\ feedback = [none |-> TRUE, agent |-> FeedbackAgentInit(PyNone, MaxRetries)]
    /\ pc = "off"
    /\ frame = Frame("")
    /\ response = NoResponse
    /\ raised = FALSE
    /\ faults = {}
    /\ outer = FALSE
    /\ producer = ""
    /\ netTrace = <<>>

\* the exception reaches the outer except clause of handle_text
ToOuter(error_msg) ==
    /\ response' = OuterExcept(error_msg).response
    /\ raised' = OuterExcept(error_msg).raised
    /\ outer' = TRUE
    /\ pc' = "done"

\* handle_text is called: the blank test and, for blank input, the return
HandleTextWith(texts) ==
    /\ pc \in {"idle", "done"}
    /\ \E text \in texts :
           /\ frame' = Frame(text)
           /\ IF IsBlankInput(text)
              THEN /\ response' = get_empty_response
                   /\ pc' = "done"
              ELSE /\ response' = NoResponse
                   /\ pc' = "intent"
    /\ raised' = FALSE
    /\ faults' = {}
    /\ outer' = FALSE
    /\ producer' = ""
    /\ netTrace' = <<>>
    /\ UNCHANGED agentVars

HandleTextCall == HandleTextWith(PipelineTexts)

\* texts of each affect band and task count: the high-stress band, the
\* stress band by one keyword and by the phrase floor alone, the positive
\* and the neutral label, one and two detected tasks, a task list in the text
BandTexts ==
    { "", "estou muito stressado, tenho muitos exames", "tenho um teste",
      "vou ter um ataque", "hoje estou feliz", "hoje",
      "tenho de estudar", "estudar e correr antes do teste" }

HandleBandText == HandleTextWith(BandTexts)

\* a coordinator with a classifier, without calendar, with a feedback agent
\* that has no key or none at all
BandsInit ==
    /\ CoordinatorInit
    /\ ~emotion.none
    /\ calendar.none
    /\ feedback.none \/ feedback.agent.api_key = PyNone

\* lines 181-192: the intent; extract_intent may raise or return a non-dict
IntentStage ==
    /\ pc = "intent"
    /\ \E behaviour \in IF interface.none THEN {"absent"}
                        ELSE {"ok", "raises", "non_dict"} :
           IF behaviour = "raises"
           THEN /\ ToOuter("extract_intent failed")
                /\ faults' = faults \cup {"intent"}
                /\ UNCHANGED frame
           ELSE /\ frame' =
                     IF behaviour = "ok"
                     THEN [frame EXCEPT
                              !.raw_text = extract_intent(frame.text).raw_text,
                              !.slots = extract_intent(frame.text).slots]
                     ELSE [frame EXCEPT !.raw_text = frame.text,
                                        !.slots = EmptySlots]
                /\ pc' = "classify"
                /\ UNCHANGED <<response, raised, outer, faults>>
    /\ UNCHANGED <<agentVars, producer, netTrace>>

\* lines 194-204: classify, extract the scores, clamp them
ClassifyStage ==
    /\ pc = "classify"
    /\ \E o \in IF emotion.none
                THEN {[result |-> [raised |-> FALSE, value |-> EmptyEmoRaw],
                       agent |-> emotion.agent]}
                ELSE classify(emotion.agent, frame.raw_text, "ok")
                     \cup {[result |-> r, agent |-> c.agent] :
                              r \in OddClassifierResults,
                              c \in classify(emotion.agent, frame.raw_text, "ok")} :
           LET emo_raw == IF o.result.raised THEN EmptyEmoRaw
                          ELSE o.result.value
               emo == extract_emotion_scores(emo_raw)
           IN  /\ frame' = [frame EXCEPT
                               !.emo_raw = emo_raw,
                               !.stress_score = Clamp01(emo.stress_score),
                               !.valence = Clamp01(emo.valence),
                               !.dominant = emo.dominant]
               /\ emotion' = [emotion EXCEPT !.agent = o.agent]
               /\ faults' = IF ~emotion.none /\ o.result.raised
                            THEN faults \cup {"classify"} ELSE faults
    /\ pc' = "calendar"
    /\ UNCHANGED <<interface, calendar, feedback, response, raised, outer,
                   producer, netTrace>>

\* the except clause around get_upcoming_events, were it missing
CalendarExceptMissing == [exc |-> TRUE, events |-> <<>>]

\* lines 211-212: the except clause around get_upcoming_events
CalendarExcept == [exc |-> FALSE, events |-> <<>>]

\* lines 206-212: the events; the fetch inside the agent may raise, and so
\* may get_upcoming_events itself
CalendarStage ==
    /\ pc = "calendar"
    /\ \E behaviour \in IF calendar.none THEN {"absent"}
                        ELSE {"fetch", "fetch_raises", "method_raises"},
          k \in FetchCounts :
           /\ behaviour \in {"absent", "fetch_raises", "method_raises"} => k = 0
           /\ LET g == get_upcoming_events(calendar.agent, EventsOf(k),
                                           behaviour = "fetch_raises")
                  r == IF behaviour = "absent" THEN [exc |-> FALSE, events |-> <<>>]
                       ELSE IF behaviour = "method_raises" THEN CalendarExcept
                       ELSE [exc |-> FALSE, events |-> g.ret]
              IN  /\ faults' = IF behaviour \in {"fetch_raises", "method_raises"}
                               THEN faults \cup {"calendar"} ELSE faults
                  /\ calendar' = IF behaviour \in {"fetch", "fetch_raises"}
                                 THEN [calendar EXCEPT !.agent = g.agent]
                                 ELSE calendar
                  /\ IF r.exc
                     THEN /\ ToOuter("calendar failed")
                          /\ UNCHANGED frame
                     ELSE /\ frame' = [frame EXCEPT !.events = r.events]
                          /\ pc' = "schedule"
                          /\ UNCHANGED <<response, raised, outer>>
    /\ UNCHANGED <<interface, emotion, feedback, producer, netTrace>>

\* lines 214-222: the tasks, the slot budget and the schedule
ScheduleStage ==
    /\ pc = "schedule"
    /\ \E bfs_raises \in BOOLEAN :
           LET tasks == extract_tasks_from_text(frame.raw_text, frame.slots)
               available_slots == calculate_stress_slots(frame.stress_score)
           IN  /\ frame' = [frame EXCEPT
                               !.tasks = tasks,
                               !.available_slots = available_slots,
                               !.schedule =
                                   IF bfs_raises
                                   THEN ScheduleFallback(tasks, available_slots)
                                   ELSE bfs_schedule(tasks, available_slots)]
               /\ faults' = IF bfs_raises THEN faults \cup {"bfs"} ELSE faults
    /\ pc' = "suggest"
    /\ UNCHANGED <<agentVars, response, raised, outer, producer, netTrace>>

\* an emotion_summary built before the scores were computed
EmotionSummaryStale ==
    [stress_score |-> 0, valence |-> 0, dominant |-> PyNone]

\* the emotion_summary of lines 225-229
EmotionSummary ==
    [stress_score |-> frame.stress_score, valence |-> frame.valence,
     dominant |-> frame.dominant]

\* lines 231-236: the calendar suggestions
SuggestStage ==
    /\ pc = "suggest"
    /\ \E behaviour \in IF calendar.none THEN {"absent"} ELSE {"ok", "raises"} :
           /\ frame' = [frame EXCEPT !.calendar_suggestions =
                           IF behaviour = "ok"
                           THEN suggest_plan(EmotionSummary, frame.events)
                           ELSE <<>>]
           /\ faults' = IF behaviour = "raises"
                        THEN faults \cup {"suggest"} ELSE faults
    /\ pc' = "feedback"
    /\ UNCHANGED <<agentVars, response, raised, outer, producer, netTrace>>

\* whether craft_message gets as far as the remote call
UsesRemote(craft) ==
    ~feedback.none /\ craft = "ok" /\ feedback.agent.openrouter_available

\* line 238: the message
FeedbackStage ==
    /\ pc = "feedback"
    /\ \E craft \in IF feedback.none THEN {"ok"} ELSE CraftBehaviours :
       \E resps \in IF UsesRemote(craft) THEN PipelineScripts ELSE {NoScript},
          bridge \in IF UsesRemote(craft) THEN PipelineBridges ELSE {"idle"} :
           LET m == safe_generate_feedback(feedback, EmotionSummary,
                        frame.calendar_suggestions, craft, resps, bridge)
           IN  /\ frame' = [frame EXCEPT
                               !.message_obj = m.message,
                               !.feedback_input =
                                   [given |-> TRUE,
                                    emotion_summary |-> EmotionSummary,
                                    calendar_suggestions |->
                                        frame.calendar_suggestions]]
               /\ producer' = m.producer
               /\ netTrace' = m.trace
               /\ faults' = faults
                            \cup (IF craft \in {"raises", "raises_twice"}
                                  THEN {"craft"} ELSE {})
                            \cup (IF feedback.none THEN {"feedback_missing"} ELSE {})
                            \cup (IF ~feedback.none /\ craft = "ok"
                                     /\ feedback.agent.openrouter_available
                                     /\ m.producer # "remote"
                                  THEN {"remote"} ELSE {})
    /\ pc' = "assemble"
    /\ UNCHANGED <<agentVars, response, raised, outer>>

\* emo.get("dominant", "unknown"): the key is always there, so the default
\* is never used
EnvelopeDominant(dominant) == dominant

\* lines 240-258: the envelope
AssembleStage ==
    /\ pc = "assemble"
    /\ response' =
           [emotion |-> [stress_score |-> Round3(frame.stress_score),
                         valence |-> Round3(frame.valence),
                         dominant |-> EnvelopeDominant(frame.dominant)],
            optimized_schedule |-> [schedule |-> frame.schedule,
                                    available_slots |-> frame.available_slots,
                                    total_tasks |-> Len(frame.tasks)],
            events |-> Take(frame.events, 5),
            message |-> frame.message_obj,
            success |-> TRUE]
    /\ pc' = "done"
    /\ UNCHANGED <<agentVars, frame, raised, faults, outer, producer, netTrace>>

HandleText ==
    \/ HandleTextCall
    \/ IntentStage
    \/ ClassifyStage
    \/ CalendarStage
    \/ ScheduleStage
    \/ SuggestStage
    \/ FeedbackStage
    \/ AssembleStage

----------------------------------------------------------------------------
(* craft_message on a loop that is already running: lines 268-275, 293-297 *)

\* the grace period added to request_timeout at line 275
Grace == 10

\* the longest wait followed when future.result is given no timeout
MaxWait == 60

\* the longest time the submitted coroutine needs
MaxDuration == 45

\* the values of OPENROUTER_TIMEOUT
BridgeTimeouts == {5, 30}

\* future.result() with no timeout
WaitUnbounded(request_timeout) == MaxWait

\* the timeout given to future.result
WaitLimit(request_timeout) == request_timeout + Grace

WaitInit ==
    /\ wpc = "call"
    /\ wTimeout \in BridgeTimeouts
    /\ wLoop \in {"caller_thread", "other_thread"}
    /\ wRemaining \in 0..MaxDuration
    /\ wClock = 0
    /\ wOut = "none"

WaitIdle ==
    /\ wpc = "off"
    /\ wTimeout = 0
    /\ wLoop = "other_thread"
    /\ wRemaining = 0
    /\ wClock = 0
    /\ wOut = "none"

\* loop.is_running() is true: run_coroutine_threadsafe, then future.result
BridgeSubmit ==
    /\ wpc = "call"
    /\ wpc' = "blocked"
    /\ UNCHANGED <<wTimeout, wLoop, wRemaining, wClock, wOut>>

\* the coroutine is done: on a loop of another thread it advances while the
\* caller waits, on the caller's own thread it cannot
CoroutineDone == wLoop = "other_thread" /\ wRemaining = 0

\* a second passes in future.result
BridgeTick ==
    /\ wpc = "blocked"
    /\ ~CoroutineDone
    /\ wClock < WaitLimit(wTimeout)
    /\ wClock' = wClock + 1
    /\ wRemaining' = IF wLoop = "other_thread" THEN wRemaining - 1 ELSE wRemaining
    /\ UNCHANGED <<wpc, wTimeout, wLoop, wOut>>

\* future.result returns the result of generate_feedback
BridgeResult ==
    /\ wpc = "blocked"
    /\ CoroutineDone
    /\ wpc' = "released"
    /\ wOut' = "result"
    /\ UNCHANGED <<wTimeout, wLoop, wRemaining, wClock>>

\* future.result raises TimeoutError; lines 293-297 return the fallback
BridgeExpire ==
    /\ wpc = "blocked"
    /\ wClock >= WaitLimit(wTimeout)
    /\ wpc' = "released"
    /\ wOut' = "heuristic_fallback"
    /\ UNCHANGED <<wTimeout, wLoop, wRemaining, wClock>>

CraftMessageWait ==
    \/ BridgeSubmit
    \/ BridgeTick
    \/ BridgeResult
    \/ BridgeExpire

----------------------------------------------------------------------------
(* EmotionAgent._ensure_pipeline_initialized called by several threads     *)

NumThreads == 2

Threads == 1..NumThreads

\* the object the call of pipeline_fn by thread t returns
BuiltBy(t) == "pipeline#" \o ToString(t)

LazyInit ==
    /\ lpc = [t \in Threads |-> "check"]
    /\ lAgent \in {EmotionAgentInit(u) : u \in BOOLEAN}
    /\ lBuilt = [t \in Threads |-> PyNone]
    /\ lRet = [t \in Threads |-> "none"]
    /\ lCalls = 0

LazyIdle ==
    /\ lpc = [t \in Threads |-> "off"]
    /\ lAgent = EmotionAgentInit(FALSE)
    /\ lBuilt = [t \in Threads |-> PyNone]
    /\ lRet = [t \in Threads |-> "none"]
    /\ lCalls = 0

\* lines 35-42: the two tests at entry
LazyCheck(t) ==
    /\ lpc[t] = "check"
    /\ IF lAgent.pipeline_initialized
       THEN /\ lRet' = [lRet EXCEPT ![t] =
                           IF lAgent.pipeline # PyNone THEN "True" ELSE "False"]
            /\ lpc' = [lpc EXCEPT ![t] = "done"]
            /\ UNCHANGED lAgent
       ELSE IF ~lAgent.use_hf
       THEN /\ lAgent' = [lAgent EXCEPT !.pipeline_initialized = TRUE]
            /\ lRet' = [lRet EXCEPT ![t] = "False"]
            /\ lpc' = [lpc EXCEPT ![t] = "done"]
       ELSE /\ lpc' = [lpc EXCEPT ![t] = "import"]
            /\ UNCHANGED <<lAgent, lRet>>
    /\ UNCHANGED <<lBuilt, lCalls>>

\* lines 47-53: the import; it raises, or transformers has no pipeline, or
\* pipeline_fn is found
LazyImport(t) ==
    /\ lpc[t] = "import"
    /\ \E outcome \in {"import_error", "no_pipeline_attr", "ok"} :
           IF outcome = "import_error"
           THEN /\ lpc' = [lpc EXCEPT ![t] = "except"]
                /\ UNCHANGED <<lAgent, lRet>>
           ELSE IF outcome = "no_pipeline_attr"
           THEN /\ lAgent' = [lAgent EXCEPT !.use_hf = FALSE,
                                            !.pipeline_initialized = TRUE]
                /\ lRet' = [lRet EXCEPT ![t] = "False"]
                /\ lpc' = [lpc EXCEPT ![t] = "done"]
           ELSE /\ lpc' = [lpc EXCEPT ![t] = "construct"]
                /\ UNCHANGED <<lAgent, lRet>>
    /\ UNCHANGED <<lBuilt, lCalls>>

\* lines 60-65, right-hand side: pipeline_fn runs; it returns or raises
LazyConstruct(t) ==
    /\ lpc[t] = "construct"
    /\ lCalls' = lCalls + 1
    /\ \E raises \in BOOLEAN :
           IF raises
           THEN /\ lpc' = [lpc EXCEPT ![t] = "except"]
                /\ UNCHANGED lBuilt
           ELSE /\ lBuilt' = [lBuilt EXCEPT ![t] = BuiltBy(t)]
                /\ lpc' = [lpc EXCEPT ![t] = "store"]
    /\ UNCHANGED <<lAgent, lRet>>

\* line 60, the assignment to self.pipeline
LazyStore(t) ==
    /\ lpc[t] = "store"
    /\ lAgent' = [lAgent EXCEPT !.pipeline = lBuilt[t]]
    /\ lpc' = [lpc EXCEPT ![t] = "flag"]
    /\ UNCHANGED <<lBuilt, lRet, lCalls>>

\* lines 67-69
LazyFlag(t) ==
    /\ lpc[t] = "flag"
    /\ lAgent' = [lAgent EXCEPT !.pipeline_initialized = TRUE]
    /\ lRet' = [lRet EXCEPT ![t] = "True"]
    /\ lpc' = [lpc EXCEPT ![t] = "done"]
    /\ UNCHANGED <<lBuilt, lCalls>>

\* lines 71-76
LazyExcept(t) ==
    /\ lpc[t] = "except"
    /\ lAgent' = [lAgent EXCEPT !.pipeline = PyNone, !.use_hf = FALSE,
                                !.pipeline_initialized = TRUE]
    /\ lRet' = [lRet EXCEPT ![t] = "False"]
    /\ lpc' = [lpc EXCEPT ![t] = "done"]
    /\ UNCHANGED <<lBuilt, lCalls>>

EnsurePipelineInitialized ==
    \E t \in Threads :
        \/ LazyCheck(t)
        \/ LazyImport(t)
        \/ LazyConstruct(t)
        \/ LazyStore(t)
        \/ LazyFlag(t)
        \/ LazyExcept(t)

----------------------------------------------------------------------------
(* CalendarAgent.get_upcoming_events, call after call                      *)

MaxCalls == 3

\* the sizes of the lists the calendar service returns to a call
CallFetchCounts == {0, 1, MaxEvents}

CalendarInit ==
    /\ cAgent \in {CalendarAgentInit(c) : c \in BOOLEAN}
    /\ cLog = <<>>
    /\ cRet = <<>>

CalendarIdle ==
    /\ cAgent = CalendarAgentInit(FALSE)
    /\ cLog = <<>>
    /\ cRet = <<>>

\* one call of get_upcoming_events: the service returns k events or raises
GetUpcomingEventsCall ==
    /\ Len(cLog) < MaxCalls
    /\ \E k \in CallFetchCounts, fails \in BOOLEAN :
           LET g == get_upcoming_events(cAgent, EventsOf(k), fails)
           IN  /\ fails => k = 0
               /\ cAgent' = g.agent
               /\ cRet' = g.ret
               /\ cLog' = Append(cLog, [failed |-> ~cAgent.calendar \/ fails,
                                        fetched |-> k])

----------------------------------------------------------------------------
(* InterfaceAgent calls: handle_input and extract_intent on their own      *)

IntentTexts ==
    {PyNone, "", " ", "   ", " \t\n",
     "dormi 6 horas e tenho de estudar",
     "o prazo do projeto é amanhã e estou ansioso",
     "Estou FELIZ",
     "12h de trabalho",
     "hoje"}

\* what transcribe_audio can return
HeardTexts == {"", "  ", "estou cansado, dormi 5 h"}

NoIntent ==
    [raised |-> FALSE, keys |-> {}, error |-> PyNone, raw_text |-> PyNone,
     slots |-> NoSlots, slot_keys |-> {}, confidence |-> 0]

IntentInit ==
    /\ ipc = "call"
    /\ iEntry \in {"handle_input", "extract_intent"}
    /\ iText \in IntentTexts
    /\ iAudio \in AudioCases
    /\ iHeard \in HeardTexts
    /\ iEntry = "extract_intent" => iAudio = "none"
    /\ iAudio # "transcribed" => iHeard = ""
    /\ iAudio = "transcribed" => iHeard # ""
    /\ iOut = NoIntent

IntentIdle ==
    /\ ipc = "off"
    /\ iEntry = "handle_input"
    /\ iText = PyNone
    /\ iAudio = "none"
    /\ iHeard = ""
    /\ iOut = NoIntent

HandleInputCall ==
    /\ ipc = "call"
    /\ iEntry = "handle_input"
    /\ iOut' = handle_input(iText, iAudio, iHeard)
    /\ ipc' = "done"
    /\ UNCHANGED <<iEntry, iText, iAudio, iHeard>>

ExtractIntentCall ==
    /\ ipc = "call"
    /\ iEntry = "extract_intent"
    /\ iOut' = ExtractIntentCallResult(iText)
    /\ ipc' = "done"
    /\ UNCHANGED <<iEntry, iText, iAudio, iHeard>>

----------------------------------------------------------------------------
(* craft_message on a running loop and the retry loop of the coroutine it  *)
(* submits: feedback_agent.py lines 51-64 and 266-276, 293-297             *)

NoLate == [attempts |-> 0, sleeps |-> 0]

CancelInit ==
    /\ kpc = "call"
    /\ kTimeout \in BridgeTimeouts
    /\ kRetries \in 1..MaxRetries
    /\ kLoop \in {"caller_thread", "other_thread"}
    /\ kClock = 0
    /\ kAttempt = 0
    /\ kPhase = "new"
    /\ kLeft = 0
    /\ kFails = FALSE
    /\ kBusy = 0
    /\ kLate = NoLate
    /\ kOut = "none"

CancelIdle ==
    /\ kpc = "off"
    /\ kTimeout = 0
    /\ kRetries = 0
    /\ kLoop = "other_thread"
    /\ kClock = 0
    /\ kAttempt = 0
    /\ kPhase = "new"
    /\ kLeft = 0
    /\ kFails = FALSE
    /\ kBusy = 0
    /\ kLate = NoLate
    /\ kOut = "none"

\* lines 266-275: the coroutine is created and handed to the running loop,
\* the caller enters future.result
RetrySubmit ==
    /\ kpc = "call"
    /\ kpc' = "blocked"
    /\ kPhase' = "queued"
    /\ UNCHANGED <<kTimeout, kRetries, kLoop, kClock, kAttempt, kLeft, kFails,
                   kBusy, kLate, kOut>>

\* a loop that runs the coroutine while its own thread is blocked
LoopRunsWhileBlocked == TRUE

\* the loop can run the coroutine: it is on another thread, or the caller,
\* whose thread it is on, is no longer inside future.result
LoopRuns == kLoop = "other_thread" \/ kpc = "released"

\* lines 54-56: an attempt begins, at the start of the coroutine or after a
\* sleep; it answers within a second or runs into the request timeout, and
\* a quick answer may be a failure too
RetryAttempt ==
    /\ LoopRuns
    /\ kPhase = "queued" \/ (kPhase = "sleep" /\ kLeft = 0)
    /\ kPhase' = "attempt"
    /\ kAttempt' = kAttempt + 1
    /\ \E quick \in BOOLEAN, fails \in BOOLEAN :
           /\ ~quick => fails
           /\ kLeft' = IF quick THEN 1 ELSE kTimeout
           /\ kFails' = fails
    /\ kLate' = IF kpc = "released"
                THEN [kLate EXCEPT !.attempts = @ + 1] ELSE kLate
    /\ UNCHANGED <<kpc, kTimeout, kRetries, kLoop, kClock, kBusy, kOut>>

\* lines 56-64: the attempt is over: return, or sleep before the next one,
\* or raise into generate_feedback, which returns the heuristic content
RetryAttemptEnds ==
    /\ LoopRuns
    /\ kPhase = "attempt"
    /\ kLeft = 0
    /\ IF ~kFails \/ kAttempt >= kRetries
       THEN /\ kPhase' = "done"
            /\ UNCHANGED <<kLeft, kLate>>
       ELSE /\ kPhase' = "sleep"
            /\ kLeft' = 2 ^ (kAttempt - 1)
            /\ kLate' = IF kpc = "released"
                        THEN [kLate EXCEPT !.sleeps = @ + 1] ELSE kLate
    /\ UNCHANGED <<kpc, kTimeout, kRetries, kLoop, kClock, kAttempt, kFails,
                   kBusy, kOut>>

\* the coroutine has a step to take that takes no time
CoroutineStep ==
    /\ LoopRuns
    /\ \/ kPhase = "queued"
       \/ kPhase \in {"attempt", "sleep"} /\ kLeft = 0

\* a second passes: in future.result for the caller, in the POST or in
\* asyncio.sleep for the coroutine
RetryTick ==
    /\ kpc \in {"blocked", "released"}
    /\ ~CoroutineStep
    /\ kpc = "blocked" => kClock < WaitLimit(kTimeout) /\ kPhase # "done"
    /\ kpc = "released" => kPhase \in {"attempt", "sleep"}
    /\ kClock' = kClock + 1
    /\ IF LoopRuns /\ kPhase \in {"attempt", "sleep"}
       THEN kLeft' = kLeft - 1 /\ kBusy' = kBusy + 1
       ELSE UNCHANGED <<kLeft, kBusy>>
    /\ UNCHANGED <<kpc, kTimeout, kRetries, kLoop, kAttempt, kPhase, kFails,
                   kLate, kOut>>

\* line 275-276: future.result returns what generate_feedback returned
RetryResult ==
    /\ kpc = "blocked"
    /\ kPhase = "done"
    /\ kpc' = "released"
    /\ kOut' = "result"
    /\ UNCHANGED <<kTimeout, kRetries, kLoop, kClock, kAttempt, kPhase, kLeft,
                   kFails, kBusy, kLate>>

\* lines 293-297: future.result raises TimeoutError and craft_message
\* returns the fallback; nothing cancels the future
RetryExpire ==
    /\ kpc = "blocked"
    /\ kPhase # "done"
    /\ kClock >= WaitLimit(kTimeout)
    /\ kpc' = "released"
    /\ kOut' = "heuristic_fallback"
    /\ UNCHANGED <<kTimeout, kRetries, kLoop, kClock, kAttempt, kPhase, kLeft,
                   kFails, kBusy, kLate>>

CraftMessageRetries ==
    \/ RetrySubmit
    \/ RetryAttempt
    \/ RetryAttemptEnds
    \/ RetryTick
    \/ RetryResult
    \/ RetryExpire

----------------------------------------------------------------------------
(* FeedbackAgent._extract_content_from_response: lines 176-206             *)

\* a key that the mapping does not have
Absent == "<absent>"

\* choices[0]["message"]: absent, null, or a mapping with or without content
Msg(state, content) == [state |-> state, content |-> content]

\* choices[0]: null, a number, or a mapping with message and text
Choice(kind, message, text) == [kind |-> kind, message |-> message, text |-> text]

NoChoice == Choice("null", Msg("absent", Absent), Absent)

\* data["choices"]: absent, null, or a list that is empty or begins with first
ChoiceList(state, first) == [state |-> state, first |-> first]

\* the decoded body: a mapping with its keys, a string, a list or null
Body(kind, choices, content, text, output) ==
    [kind |-> kind, choices |-> choices, content |-> content, text |-> text,
     output |-> output]

\* repr() of a string value or of None
PyRepr(v) == IF v = PyNone THEN "None" ELSE "'" \o v \o "'"

\* the items of a mapping's repr, for the keys that are present
ReprItems(pairs) ==
    LET shown == SelectSeq(pairs, LAMBDA kv : kv[2] # Absent)
    IN  JoinWith([i \in 1..Len(shown) |-> "'" \o shown[i][1] \o "': " \o shown[i][2]],
                 ", ")

ReprMsg(m) ==
    IF m.state = "absent" THEN Absent
    ELSE IF m.state = "null" THEN "None"
    ELSE "{" \o ReprItems(<< <<"role", "'assistant'">>,
                             <<"content", IF m.content = Absent THEN Absent
                                          ELSE PyRepr(m.content)>> >>) \o "}"

ReprChoice(c) ==
    IF c.kind = "null" THEN "None"
    ELSE IF c.kind = "int" THEN "0"
    ELSE "{" \o ReprItems(<< <<"message", ReprMsg(c.message)>>,
                             <<"text", IF c.text = Absent THEN Absent
                                       ELSE PyRepr(c.text)>> >>) \o "}"

ReprChoices(cl) ==
    IF cl.state = "absent" THEN Absent
    ELSE IF cl.state = "null" THEN "None"
    ELSE IF cl.state = "empty" THEN "[]"
    ELSE "[" \o ReprChoice(cl.first) \o "]"

\* str(data)
StrOf(data) ==
    IF data.kind = "none" THEN "None"
    ELSE IF data.kind = "list" THEN "[]"
    ELSE IF data.kind = "str" THEN data.content
    ELSE "{" \o ReprItems(<< <<"choices", ReprChoices(data.choices)>>,
                             <<"content", IF data.content = Absent THEN Absent
                                          ELSE PyRepr(data.content)>>,
                             <<"text", IF data.text = Absent THEN Absent
                                       ELSE PyRepr(data.text)>>,
                             <<"output", IF data.output = Absent THEN Absent
                                         ELSE PyRepr(data.output)>> >>) \o "}"

Extracted(value) == [value |-> value, caught |-> FALSE]

\* lines 204-206: the except clause
ExtractFailed == [value |-> PyNone, caught |-> TRUE]

\* lines 189-201: the flat keys, the string itself, str(data)
ExtractFlat(data) ==
    IF data.kind = "dict" /\ data.content # Absent THEN Extracted(data.content)
    ELSE IF data.kind = "dict" /\ data.text # Absent THEN Extracted(data.text)
    ELSE IF data.kind = "dict" /\ data.output # Absent THEN Extracted(data.output)
    ELSE Extracted(StrOf(data))

\* FeedbackAgent._extract_content_from_response
extract_content_from_response(data) ==
    IF data.kind = "dict" /\ data.choices.state # "absent"
    THEN \* len(data["choices"]) raises on null
         IF data.choices.state = "null" THEN ExtractFailed
         ELSE IF data.choices.state = "empty" THEN ExtractFlat(data)
         ELSE LET choice == data.choices.first
              IN  \* "message" in choice  raises on null and on a number
                  IF choice.kind # "dict" THEN ExtractFailed
                  ELSE IF choice.message.state # "absent"
                  THEN \* "content" in choice["message"]  raises on null
                       IF choice.message.state = "null" THEN ExtractFailed
                       ELSE IF choice.message.content # Absent
                       THEN Extracted(choice.message.content)
                       ELSE IF choice.text # Absent THEN Extracted(choice.text)
                       ELSE ExtractFlat(data)
                  ELSE IF choice.text # Absent THEN Extracted(choice.text)
                  ELSE ExtractFlat(data)
    ELSE ExtractFlat(data)

\* the first elements a choices list can have
FirstChoices ==
    { Choice("null", Msg("absent", Absent), Absent),
      Choice("int", Msg("absent", Absent), Absent) }
    \cup { Choice("dict", m, t) :
              m \in { Msg("absent", Absent), Msg("null", Absent),
                      Msg("dict", Absent), Msg("dict", PyNone),
                      Msg("dict", "from message") },
              t \in { Absent, "from choice text" } }

ChoiceLists ==
    { ChoiceList("absent", NoChoice), ChoiceList("null", NoChoice),
      ChoiceList("empty", NoChoice) }
    \cup { ChoiceList("list", c) : c \in FirstChoices }

\* the bodies a response can decode to
Bodies ==
    { Body("dict", cl, c, t, o) :
          cl \in ChoiceLists,
          c \in { Absent, "from content" },
          t \in { Absent, "from text" },
          o \in { Absent, "from output" } }
    \cup { Body("str", ChoiceList("absent", NoChoice), "a plain string", Absent, Absent),
           Body("none", ChoiceList("absent", NoChoice), Absent, Absent, Absent),
           Body("list", ChoiceList("absent", NoChoice), Absent, Absent, Absent) }

ExtractInit ==
    /\ xpc = "call"
    /\ xData \in Bodies
    /\ xOut = Extracted(Absent)

ExtractIdle ==
    /\ xpc = "off"
    /\ xData = Body("none", ChoiceList("absent", NoChoice), Absent, Absent, Absent)
    /\ xOut = Extracted(Absent)

ExtractContentCall ==
    /\ xpc = "call"
    /\ xOut' = extract_content_from_response(xData)
    /\ xpc' = "done"
    /\ UNCHANGED <<xData, jpc, jContent, jOut>>

----------------------------------------------------------------------------
(* FeedbackAgent._parse_json_response: lines 208-251                       *)

\* what the method returns: the step that parsed and the text it parsed, or
\* None
Parsed(step, text) == [none |-> FALSE, step |-> step, text |-> text]

NoParse == [none |-> TRUE, step |-> "", text |-> ""]

\* the character at place i of a text, "" past its ends
Ch(t, i) == IF i >= 1 /\ i <= Len(t) THEN SubSeq(t, i, i) ELSE ""

\* json.loads on the subset the responses are drawn from: objects, arrays,
\* strings without escapes, integers, true, false, null, and whitespace.
\* Each scanner returns the place after what it read, 0 when it cannot.
SkipWs(t, i) ==
    CHOOSE j \in i..(Len(t) + 1) :
        /\ \A k \in i..(j - 1) : IsSpace(Ch(t, k))
        /\ ~IsSpace(Ch(t, j))

StringEnd(t, i) ==
    IF Ch(t, i) # "\"" THEN 0
    ELSE LET close == {j \in (i + 1)..Len(t) : Ch(t, j) = "\""}
         IN  IF close = {} THEN 0
             ELSE LET j == CHOOSE x \in close : \A y \in close : x <= y
                  IN  IF \E k \in (i + 1)..(j - 1) : Ch(t, k) \in {"\n", "\t", "\r"}
                      THEN 0 ELSE j + 1

NumberEnd(t, i) ==
    LET first == IF Ch(t, i) = "-" THEN i + 1 ELSE i
        e == CHOOSE j \in first..(Len(t) + 1) :
                 /\ \A k \in first..(j - 1) : IsDigit(Ch(t, k))
                 /\ ~IsDigit(Ch(t, j))
    IN  IF e = first THEN 0
        ELSE IF Ch(t, first) = "0" /\ e > first + 1 THEN first + 1
        ELSE e

LiteralEnd(t, i) ==
    IF SubSeq(t, i, Min(Len(t), i + 3)) \in {"true", "null"} THEN i + 4
    ELSE IF SubSeq(t, i, Min(Len(t), i + 4)) = "false" THEN i + 5
    ELSE 0

RECURSIVE ValueEnd(_, _)
RECURSIVE MembersEnd(_, _)
RECURSIVE ItemsEnd(_, _)

\* "key": value, ... }
MembersEnd(t, i) ==
    LET s == StringEnd(t, i)
        k == IF s = 0 THEN 0 ELSE SkipWs(t, s)
        v == IF k = 0 \/ Ch(t, k) # ":" THEN 0 ELSE ValueEnd(t, SkipWs(t, k + 1))
        w == IF v = 0 THEN 0 ELSE SkipWs(t, v)
    IN  IF w = 0 THEN 0
        ELSE IF Ch(t, w) = "}" THEN w + 1
        ELSE IF Ch(t, w) = "," THEN MembersEnd(t, SkipWs(t, w + 1))
        ELSE 0

\* value, ... ]
ItemsEnd(t, i) ==
    LET v == ValueEnd(t, i)
        w == IF v = 0 THEN 0 ELSE SkipWs(t, v)
    IN  IF w = 0 THEN 0
        ELSE IF Ch(t, w) = "]" THEN w + 1
        ELSE IF Ch(t, w) = "," THEN ItemsEnd(t, SkipWs(t, w + 1))
        ELSE 0

ValueEnd(t, i) ==
    LET c == Ch(t, i)
    IN  IF c = "{"
        THEN LET j == SkipWs(t, i + 1)
             IN  IF Ch(t, j) = "}" THEN j + 1 ELSE MembersEnd(t, j)
        ELSE IF c = "["
        THEN LET j == SkipWs(t, i + 1)
             IN  IF Ch(t, j) = "]" THEN j + 1 ELSE ItemsEnd(t, j)
        ELSE IF c = "\"" THEN StringEnd(t, i)
        ELSE IF c = "-" \/ IsDigit(c) THEN NumberEnd(t, i)
        ELSE LiteralEnd(t, i)

\* json.loads(t) returns instead of raising JSONDecodeError
JsonValid(t) ==
    LET i == SkipWs(t, 1)
        e == ValueEnd(t, i)
    IN  e # 0 /\ SkipWs(t, e) = Len(t) + 1

\* the value json.loads(t) returns, written without the whitespace between
\* its tokens
RECURSIVE CompactFrom(_, _, _)
CompactFrom(t, lo, hi) ==
    IF lo > hi THEN ""
    ELSE IF lo = hi
    THEN IF /\ IsSpace(Ch(t, lo))
            /\ Cardinality({k \in 1..lo : Ch(t, k) = "\""}) % 2 = 0
         THEN "" ELSE Ch(t, lo)
    ELSE CompactFrom(t, lo, (lo + hi) \div 2)
         \o CompactFrom(t, (lo + hi) \div 2 + 1, hi)

JsonValue(t) == CompactFrom(t, 1, Len(t))

\* the place of the first brace after place i, 0 when there is none
NextBrace(t, i) ==
    LET js == {j \in (i + 1)..Len(t) : Ch(t, j) \in {"{", "}"}}
    IN  IF js = {} THEN 0 ELSE CHOOSE x \in js : \A y \in js : x <= y

\* where a match of  \{[^{}]*\{[^{}]*\{[^{}]*\}[^{}]*\}[^{}]*\}  that begins
\* at place i ends, 0 when there is none: the next five braces are {{}}}
NestedEnd(t, i) ==
    LET b1 == NextBrace(t, i)
        b2 == IF b1 = 0 THEN 0 ELSE NextBrace(t, b1)
        b3 == IF b2 = 0 THEN 0 ELSE NextBrace(t, b2)
        b4 == IF b3 = 0 THEN 0 ELSE NextBrace(t, b3)
        b5 == IF b4 = 0 THEN 0 ELSE NextBrace(t, b4)
    IN  IF /\ Ch(t, i) = "{" /\ b5 # 0
           /\ Ch(t, b1) = "{" /\ Ch(t, b2) = "{"
           /\ Ch(t, b3) = "}" /\ Ch(t, b4) = "}" /\ Ch(t, b5) = "}"
        THEN b5 ELSE 0

\* where a match of  \{[^}]+\}  that begins at place i ends
SimpleEnd(t, i) ==
    LET js == {j \in (i + 1)..Len(t) : Ch(t, j) = "}"}
        j == IF js = {} THEN 0 ELSE CHOOSE x \in js : \A y \in js : x <= y
    IN  IF Ch(t, i) = "{" /\ j > i + 1 THEN j ELSE 0

\* where a match of  \{.*\}  (DOTALL) that begins at place i ends
AnyEnd(t, i) ==
    LET js == {j \in (i + 1)..Len(t) : Ch(t, j) = "}"}
    IN  IF Ch(t, i) = "{" /\ js # {}
        THEN CHOOSE x \in js : \A y \in js : x >= y ELSE 0

PatternEnd(pattern, t, i) ==
    IF pattern = "nested" THEN NestedEnd(t, i)
    ELSE IF pattern = "any" THEN AnyEnd(t, i)
    ELSE SimpleEnd(t, i)

\* re.findall(pattern, content, re.DOTALL): the matches from place i on, from
\* left to right and without overlap
RECURSIVE FindAll(_, _, _)
FindAll(pattern, t, i) ==
    IF i > Len(t) THEN <<>>
    ELSE LET starts == {j \in i..Len(t) : PatternEnd(pattern, t, j) # 0}
         IN  IF starts = {} THEN <<>>
             ELSE LET j == CHOOSE x \in starts : \A y \in starts : x <= y
                      e == PatternEnd(pattern, t, j)
                  IN  <<SubSeq(t, j, e)>> \o FindAll(pattern, t, e + 1)

\* max(matches, key=len): the first of the longest
Longest(matches) ==
    matches[CHOOSE i \in 1..Len(matches) :
                /\ \A j \in 1..Len(matches) : Len(matches[j]) <= Len(matches[i])
                /\ \A j \in 1..(i - 1) : Len(matches[j]) < Len(matches[i])]

\* str.replace(old, "")
RECURSIVE Remove(_, _)
Remove(t, old) ==
    LET at == {i \in 1..(Len(t) - Len(old) + 1) : SubSeq(t, i, i + Len(old) - 1) = old}
    IN  IF at = {} THEN t
        ELSE LET i == CHOOSE x \in at : \A y \in at : x <= y
             IN  SubSeq(t, 1, i - 1) \o Remove(SubSeq(t, i + Len(old), Len(t)), old)

\* the grave accent, and the marker of a Markdown code fence
Tick == SubSeq("`'", 1, 1)

Fence == Tick \o Tick \o Tick

\* line 244: the content without its code-fence markers
Unfenced(content) == Strip(Remove(Remove(content, Fence \o "json"), Fence))

\* lines 222-240: the patterns in their order
json_patterns == <<"nested", "any", "simple">>

\* the loop over json_patterns from pattern k on: the longest match of the
\* first pattern whose longest match parses
RECURSIVE PatternLoop(_, _)
PatternLoop(content, k) ==
    IF k > Len(json_patterns) THEN NoParse
    ELSE LET matches == FindAll(json_patterns[k], content, 1)
         IN  IF matches # <<>> /\ JsonValid(Longest(matches))
             THEN Parsed(json_patterns[k], JsonValue(Longest(matches)))
             ELSE PatternLoop(content, k + 1)

\* FeedbackAgent._parse_json_response
parse_json_response(content) ==
    IF Falsy(content) THEN NoParse
    ELSE IF JsonValid(content) THEN Parsed("direct", JsonValue(content))
    ELSE LET r == PatternLoop(content, 1)
         IN  IF ~r.none THEN r
             ELSE IF JsonValid(Unfenced(content))
             THEN Parsed("fence", JsonValue(Unfenced(content)))
             ELSE NoParse

\* the texts a model answers with: objects nested 1 to 4 deep, the empty
\* object, two objects, an array, an object with a trailing comma, no JSON
JsonBodies ==
    { "{\"a\": 1}",
      "{\"recommendations\": [{\"type\": \"immediate\"}], \"n\": 3}",
      "{\"a\": {\"b\": {\"c\": 1}}}",
      "{\"a\": {\"b\": {\"c\": {\"d\": 1}}}}",
      "{}",
      "{\"a\": 1} {\"b\": 22}",
      "[1, 2]",
      "{\"a\": 1,}",
      "nada" }

\* what precedes the answer: nothing, prose, prose with braces of its own
Proses == { "", "Aqui tens: ", "Usa {x}: " }

Fencings == { "none", "json", "plain" }

Tails == { "", " fim" }

\* the answer inside its fence, after the prose, before the tail
Wrap(prose, fencing, body, tail) ==
    prose
    \o (IF fencing = "json" THEN Fence \o "json\n" \o body \o "\n" \o Fence
        ELSE IF fencing = "plain" THEN Fence \o "\n" \o body \o "\n" \o Fence
        ELSE body)
    \o tail

Contents ==
    { Wrap(prose, fencing, body, tail) :
          prose \in Proses, fencing \in Fencings, body \in JsonBodies,
          tail \in Tails }
    \cup { PyNone, "" }

ParseInit ==
    /\ jpc = "call"
    /\ jContent \in Contents
    /\ jOut = NoParse

ParseJsonCall ==
    /\ jpc = "call"
    /\ jOut' = parse_json_response(jContent)
    /\ jpc' = "done"
    /\ UNCHANGED <<jContent, xpc, xData, xOut>>

ParseIdle ==
    /\ jpc = "off"
    /\ jContent = ""
    /\ jOut = NoParse

RespIdle == ExtractIdle /\ ParseIdle

----------------------------------------------------------------------------
(* Specifications                                                          *)

InitBfs == BfsInit /\ SlotsIdle /\ EmotionIdle /\ FeedbackIdle /\ CoordinatorIdle /\ WaitIdle /\ LazyIdle /\ CalendarIdle /\ IntentIdle /\ CancelIdle /\ RespIdle
NextBfs == BfsCall /\ UNCHANGED <<slotVars, emoVars, fbVars, coVars, waitVars, lazyVars, calVars, intentVars, cancelVars, respVars>>
SpecBfs == InitBfs /\ [][NextBfs]_vars

InitSlots == SlotsInit /\ BfsIdle /\ EmotionIdle /\ FeedbackIdle /\ CoordinatorIdle /\ WaitIdle /\ LazyIdle /\ CalendarIdle /\ IntentIdle /\ CancelIdle /\ RespIdle
NextSlots == SlotsCall /\ UNCHANGED <<bfsVars, emoVars, fbVars, coVars, waitVars, lazyVars, calVars, intentVars, cancelVars, respVars>>
SpecSlots == InitSlots /\ [][NextSlots]_vars

InitEmotion == EmotionInit /\ BfsIdle /\ SlotsIdle /\ FeedbackIdle /\ CoordinatorIdle /\ WaitIdle /\ LazyIdle /\ CalendarIdle /\ IntentIdle /\ CancelIdle /\ RespIdle
NextEmotion == ClassifyCall /\ UNCHANGED <<bfsVars, slotVars, fbVars, coVars, waitVars, lazyVars, calVars, intentVars, cancelVars, respVars>>
SpecEmotion == InitEmotion /\ [][NextEmotion]_vars

\* _call_openrouter_with_retries called as generate_feedback calls it, on an
\* agent with a key; producer is "raised" when the call raises
RetriesCall ==
    /\ fpc = "call"
    /\ fEntry = "_call_openrouter_with_retries"
    /\ LET r == call_openrouter_with_retries(fAgent, fResps)
       IN  fOut' = [result |-> IF r.raised THEN NoOut.result ELSE r.result,
                    trace |-> r.trace,
                    producer |-> IF r.raised THEN "raised" ELSE "remote"]
    /\ fpc' = "done"
    /\ UNCHANGED <<fAgent, fEntry, fSummary, fSuggestions, fResps, fBridge>>

InitHeuristic ==
    /\ HeuristicInit /\ BfsIdle /\ SlotsIdle /\ FeedbackIdle /\ CoordinatorIdle
    /\ WaitIdle /\ LazyIdle /\ CalendarIdle /\ IntentIdle /\ CancelIdle /\ RespIdle
SpecHeuristic == InitHeuristic /\ [][NextEmotion]_vars

InitFeedback == FeedbackInit /\ BfsIdle /\ SlotsIdle /\ EmotionIdle /\ CoordinatorIdle /\ WaitIdle /\ LazyIdle /\ CalendarIdle /\ IntentIdle /\ CancelIdle /\ RespIdle
NextFeedback ==
    \/ CraftMessageCall /\ UNCHANGED <<bfsVars, slotVars, emoVars, coVars, waitVars, lazyVars, calVars, intentVars, cancelVars, respVars>>
    \/ GenerateFeedbackCall /\ UNCHANGED <<bfsVars, slotVars, emoVars, coVars, waitVars, lazyVars, calVars, intentVars, cancelVars, respVars>>
    \/ RetriesCall /\ UNCHANGED <<bfsVars, slotVars, emoVars, coVars, waitVars, lazyVars, calVars, intentVars, cancelVars, respVars>>
SpecFeedback == InitFeedback /\ [][NextFeedback]_vars

InitValidation ==
    /\ ValidationInit /\ BfsIdle /\ SlotsIdle /\ EmotionIdle /\ CoordinatorIdle
    /\ WaitIdle /\ LazyIdle /\ CalendarIdle /\ IntentIdle /\ CancelIdle /\ RespIdle
SpecValidation == InitValidation /\ [][NextFeedback]_vars

InitNoRetries ==
    /\ NoRetriesInit /\ BfsIdle /\ SlotsIdle /\ EmotionIdle /\ CoordinatorIdle
    /\ WaitIdle /\ LazyIdle /\ CalendarIdle /\ IntentIdle /\ CancelIdle /\ RespIdle
SpecNoRetries == InitNoRetries /\ [][NextFeedback]_vars

InitWait ==
    /\ WaitInit /\ BfsIdle /\ SlotsIdle /\ EmotionIdle /\ FeedbackIdle
    /\ CoordinatorIdle /\ LazyIdle /\ CalendarIdle /\ IntentIdle /\ CancelIdle /\ RespIdle
NextWait ==
    CraftMessageWait
    /\ UNCHANGED <<bfsVars, slotVars, emoVars, fbVars, coVars, lazyVars, calVars, intentVars, cancelVars, respVars>>
\* time passes and the timer of future.result fires
SpecWait == InitWait /\ [][NextWait]_vars /\ WF_vars(NextWait)

InitLazy ==
    /\ LazyInit /\ BfsIdle /\ SlotsIdle /\ EmotionIdle /\ FeedbackIdle
    /\ CoordinatorIdle /\ WaitIdle /\ CalendarIdle /\ IntentIdle /\ CancelIdle /\ RespIdle
NextLazy ==
    EnsurePipelineInitialized
    /\ UNCHANGED <<bfsVars, slotVars, emoVars, fbVars, coVars, waitVars, calVars, intentVars, cancelVars, respVars>>
SpecLazy == InitLazy /\ [][NextLazy]_vars

InitCalendar ==
    /\ CalendarInit /\ BfsIdle /\ SlotsIdle /\ EmotionIdle /\ FeedbackIdle
    /\ CoordinatorIdle /\ WaitIdle /\ LazyIdle /\ IntentIdle /\ CancelIdle /\ RespIdle
NextCalendar ==
    GetUpcomingEventsCall
    /\ UNCHANGED <<bfsVars, slotVars, emoVars, fbVars, coVars, waitVars, lazyVars, intentVars, cancelVars, respVars>>
SpecCalendar == InitCalendar /\ [][NextCalendar]_vars

InitIntent ==
    /\ IntentInit /\ BfsIdle /\ SlotsIdle /\ EmotionIdle /\ FeedbackIdle
    /\ CoordinatorIdle /\ WaitIdle /\ LazyIdle /\ CalendarIdle /\ CancelIdle /\ RespIdle
NextIntent ==
    \/ HandleInputCall /\ UNCHANGED <<bfsVars, slotVars, emoVars, fbVars, coVars, waitVars, lazyVars, calVars, cancelVars, respVars>>
    \/ ExtractIntentCall /\ UNCHANGED <<bfsVars, slotVars, emoVars, fbVars, coVars, waitVars, lazyVars, calVars, cancelVars, respVars>>
SpecIntent == InitIntent /\ [][NextIntent]_vars

InitCancel ==
    /\ CancelInit /\ BfsIdle /\ SlotsIdle /\ EmotionIdle /\ FeedbackIdle
    /\ CoordinatorIdle /\ WaitIdle /\ LazyIdle /\ CalendarIdle /\ IntentIdle
    /\ RespIdle
NextCancel ==
    CraftMessageRetries
    /\ UNCHANGED <<bfsVars, slotVars, emoVars, fbVars, coVars, waitVars, lazyVars, calVars, intentVars, respVars>>
InitExtract ==
    /\ ExtractInit /\ ParseIdle /\ BfsIdle /\ SlotsIdle /\ EmotionIdle /\ FeedbackIdle
    /\ CoordinatorIdle /\ WaitIdle /\ LazyIdle /\ CalendarIdle /\ IntentIdle
    /\ CancelIdle
NextExtract ==
    ExtractContentCall
    /\ UNCHANGED <<bfsVars, slotVars, emoVars, fbVars, coVars, waitVars, lazyVars, calVars, intentVars, cancelVars>>
SpecExtract == InitExtract /\ [][NextExtract]_vars

InitParse ==
    /\ ParseInit /\ ExtractIdle /\ BfsIdle /\ SlotsIdle /\ EmotionIdle /\ FeedbackIdle
    /\ CoordinatorIdle /\ WaitIdle /\ LazyIdle /\ CalendarIdle /\ IntentIdle
    /\ CancelIdle
NextParse ==
    ParseJsonCall
    /\ UNCHANGED <<bfsVars, slotVars, emoVars, fbVars, coVars, waitVars, lazyVars, calVars, intentVars, cancelVars>>
SpecParse == InitParse /\ [][NextParse]_vars

SpecCancel == InitCancel /\ [][NextCancel]_vars
\* time passes, the timer of future.result fires and the loop runs what it
\* has been handed
SpecCancelFair == SpecCancel /\ WF_vars(NextCancel)

Init == CoordinatorInit /\ BfsIdle /\ SlotsIdle /\ EmotionIdle /\ FeedbackIdle /\ WaitIdle /\ LazyIdle /\ CalendarIdle /\ IntentIdle /\ CancelIdle /\ RespIdle
Next == HandleText /\ UNCHANGED <<bfsVars, slotVars, emoVars, fbVars, waitVars, lazyVars, calVars, intentVars, cancelVars, respVars>>
Spec == Init /\ [][Next]_vars

InitBands == BandsInit /\ BfsIdle /\ SlotsIdle /\ EmotionIdle /\ FeedbackIdle /\ WaitIdle /\ LazyIdle /\ CalendarIdle /\ IntentIdle /\ CancelIdle /\ RespIdle
HandleBands ==
    \/ HandleBandText
    \/ IntentStage
    \/ ClassifyStage
    \/ CalendarStage
    \/ ScheduleStage
    \/ SuggestStage
    \/ FeedbackStage
    \/ AssembleStage
NextBands == HandleBands /\ UNCHANGED <<bfsVars, slotVars, emoVars, fbVars, waitVars, lazyVars, calVars, intentVars, cancelVars, respVars>>
SpecBands == InitBands /\ [][NextBands]_vars

----------------------------------------------------------------------------
(* Properties of the feedback agent                                        *)

\* whether a provenance tag names a heuristic source
HeuristicTag(source) == Contains(Lower(source), "heuristic")

\* C3: with no API key configured, every call of craft_message and of
\* generate_feedback returns an envelope tagged with a heuristic source and
\* makes no call of _call_openrouter.
C3_NoKeyNoRemote ==
    (fpc = "done" /\ ~fAgent.openrouter_available) =>
        /\ HeuristicTag(fOut.result.source)
        /\ fOut.producer = "heuristic"
        /\ Attempts(fOut.trace) = 0

\* craft_message without a key, on an agent whose retries and responses would
\* have let a remote call succeed
C3_Witness ==
    /\ fpc = "done"
    /\ fEntry = "craft_message"
    /\ fAgent.api_key = PyNone
    /\ fAgent.max_retries = 3
    /\ fResps[1] = Resp("ok", 2)
    /\ fOut.result.source = "heuristic_fallback"
    /\ Len(fOut.result.recommendations) = 3

\* generate_feedback without a key
C3_WitnessGenerate ==
    /\ fpc = "done"
    /\ fEntry = "generate_feedback"
    /\ fAgent.api_key = ""
    /\ fAgent.max_retries = 3
    /\ fOut.result.source = "heuristic_evidence_based"

\* whether the k-th POST of the call fails
AttemptFails(k) == call_openrouter(fResps[k]).raised

\* C11: _call_openrouter_with_retries makes at most max_retries attempts,
\* stops at the first one that succeeds, sleeps retry_backoff * 2^(k-1)
\* after failed attempt k only when k < max_retries and never after the last
\* attempt; with max_retries = 3, retry_backoff = 1.0 and every attempt
\* failing the events are attempt, sleep 1, attempt, sleep 2, attempt, raise.
C11_RetrySchedule ==
    (/\ fpc = "done"
     /\ fAgent.openrouter_available
     /\ fEntry \in {"_call_openrouter_with_retries", "generate_feedback"}) =>
        LET tr == fOut.trace
            n == Attempts(tr)
        IN  /\ n <= fAgent.max_retries
            /\ Len(tr) = IF n = 0 THEN 0 ELSE 2 * n - 1
            /\ \A k \in 1..n : tr[2 * k - 1] = [ev |-> "attempt", arg |-> k]
            /\ \A k \in 1..(n - 1) :
                   /\ AttemptFails(k)
                   /\ tr[2 * k] = [ev |-> "sleep",
                                   arg |-> fAgent.retry_backoff * 2 ^ (k - 1)]
            /\ n < fAgent.max_retries => ~AttemptFails(n)
            /\ fOut.producer = "remote" <=> (n >= 1 /\ ~AttemptFails(n))
            /\ (/\ fAgent.max_retries = 3
                /\ \A k \in 1..3 : AttemptFails(k)) =>
                   /\ tr = << [ev |-> "attempt", arg |-> 1],
                              [ev |-> "sleep", arg |-> 1],
                              [ev |-> "attempt", arg |-> 2],
                              [ev |-> "sleep", arg |-> 2],
                              [ev |-> "attempt", arg |-> 3] >>
                   /\ fEntry = "_call_openrouter_with_retries" =>
                          fOut.producer = "raised"

\* the parsed value is a mapping with a non-empty recommendations list
ValidShape(resp) == resp.shape = "mapping" /\ resp.n > 0

\* the attempts whose response has the valid shape
ValidAttempts == {k \in 1..fAgent.max_retries : ValidShape(fResps[k])}

\* C24: a remote response is returned, with the remote source tag, only if
\* its parsed content is a mapping with a non-empty recommendations list; a
\* non-mapping, a mapping without the key, a value that is no list, an empty
\* list and an empty mapping each use up one attempt and are retried, and
\* none of them is returned to the caller.
C24_OnlyValidAccepted ==
    (fpc = "done" /\ \A k \in 1..Len(fResps) : fResps[k].kind = "parsed") =>
        LET n == Attempts(fOut.trace)
        IN  /\ fOut.producer = "remote" =>
                   /\ ValidAttempts # {}
                   /\ fOut.result.source = "openrouter"
                   /\ fOut.result.recommendations # <<>>
            /\ fEntry \in {"_call_openrouter_with_retries", "generate_feedback"} =>
                   /\ ValidAttempts # {} =>
                          /\ fOut.producer = "remote"
                          /\ n \in ValidAttempts
                          /\ \A k \in ValidAttempts : n <= k
                          /\ Len(fOut.result.recommendations) = fResps[n].n
                   /\ ValidAttempts = {} =>
                          /\ n = fAgent.max_retries
                          /\ fOut.producer # "remote"
                          /\ fOut.result.source # "openrouter"
                          /\ fEntry = "generate_feedback" =>
                                 HeuristicTag(fOut.result.source)

\* two invalid shapes used up two attempts and the third, valid one was
\* returned
C24_Witness ==
    /\ fpc = "done"
    /\ fEntry = "_call_openrouter_with_retries"
    /\ fAgent.max_retries = 3
    /\ fResps = << ParsedResp("mapping", 0), ParsedResp("list", 0),
                   ParsedResp("mapping", 2) >>
    /\ Attempts(fOut.trace) = 3
    /\ fOut.producer = "remote"

\* every response was invalid and the caller got the heuristic content
C24_WitnessAllInvalid ==
    /\ fpc = "done"
    /\ fEntry = "generate_feedback"
    /\ fAgent.max_retries = 3
    /\ fResps = << ParsedResp("empty_mapping", 0),
                   ParsedResp("mapping_without_key", 0),
                   ParsedResp("mapping_key_not_list", 0) >>
    /\ Attempts(fOut.trace) = 3
    /\ fOut.producer = "heuristic"

\* C12: when every remote attempt fails, generate_feedback does not raise:
\* it returns the output of the heuristic generator, tagged with a heuristic
\* source, and nothing of the remote error is in what the caller gets.
C12_ExhaustedFallsBack ==
    (/\ fpc = "done"
     /\ fEntry = "generate_feedback"
     /\ fAgent.openrouter_available
     /\ \A k \in 1..fAgent.max_retries : AttemptFails(k)) =>
        /\ fOut.producer = "heuristic"
        /\ fOut.result = heuristic_feedback(fSummary, fSuggestions)
        /\ HeuristicTag(fOut.result.source)
        /\ DOMAIN fOut.result = {"recommendations", "follow_up_prompt", "source"}

C12_Witness ==
    /\ fpc = "done"
    /\ fEntry = "generate_feedback"
    /\ fAgent.openrouter_available
    /\ fAgent.max_retries = 3
    /\ fResps = << Resp("status_500", 0), Resp("no_content", 0), Resp("ok", 0) >>
    /\ Attempts(fOut.trace) = 3
    /\ fOut.result.source = "heuristic_evidence_based"
    /\ Len(fOut.result.recommendations) = 3

\* C13: every envelope the feedback agent returns carries at most 3
\* recommendations, a remote answer with more being cut to 3.
C13_AtMostThree ==
    (fpc = "done" /\ fEntry \in {"craft_message", "generate_feedback"}) =>
        Len(fOut.result.recommendations) <= 3

\* C14 as amended: craft_message never lets an exception reach its caller.
\* With no event loop on the thread, or a closed one, the RuntimeError is
\* answered by asyncio.run and the result of generate_feedback is returned,
\* remote or heuristic; when the bounded wait expires or asyncio.run raises,
\* the heuristic envelope tagged heuristic_fallback is returned.
C14_BridgeNeverRaises ==
    (fpc = "done" /\ fEntry = "craft_message") =>
        /\ fOut.producer \in {"remote", "heuristic"}
        /\ fOut.result.recommendations # <<>>
        /\ (fAgent.openrouter_available
             /\ fBridge \in {"running_timeout", "no_loop_run_fails"}) =>
               /\ fOut.producer = "heuristic"
               /\ fOut.result = HeuristicFallback(fSummary, fSuggestions)
               /\ HeuristicTag(fOut.result.source)
        /\ (fAgent.openrouter_available
             /\ fBridge \in {"no_loop", "loop_closed"}) =>
               fOut = generate_feedback(fAgent, fSummary, fSuggestions, fResps)

C14_Witness ==
    /\ fpc = "done"
    /\ fEntry = "craft_message"
    /\ fAgent.openrouter_available
    /\ fAgent.max_retries = 3
    /\ fBridge = "running_timeout"
    /\ fResps[1] = Resp("ok", 2)
    /\ fOut.result.source = "heuristic_fallback"

\* C14 as stated: every error met while bridging (no event loop, loop
\* closed, the wait expiring, an error from asyncio.run) ends in a returned
\* heuristic envelope tagged with a heuristic source.
C14_BridgeErrorsAllHeuristic ==
    (/\ fpc = "done"
     /\ fEntry = "craft_message"
     /\ fAgent.openrouter_available
     /\ fBridge \in {"no_loop", "loop_closed", "running_timeout",
                     "no_loop_run_fails"}) =>
        /\ fOut.producer = "heuristic"
        /\ HeuristicTag(fOut.result.source)

\* C15: called while the loop it finds is running, craft_message blocks its
\* caller for at most request_timeout + 10 seconds, and the caller is always
\* released: with the result of the coroutine, or on expiry with the
\* heuristic fallback.
C15_BoundedWait ==
    /\ [](wpc \in {"blocked", "released"} => wClock <= wTimeout + 10)
    /\ [](wpc = "released" =>
             \/ wOut = "result" /\ wLoop = "other_thread"
             \/ wOut = "heuristic_fallback" /\ wClock = wTimeout + 10)
    /\ (wpc = "blocked" ~> wpc = "released")

\* the loop is on the caller's own thread, so the coroutine cannot advance:
\* the caller is released by the expiry after 40 seconds
C15_Witness ==
    /\ wpc = "released"
    /\ wLoop = "caller_thread"
    /\ wTimeout = 30
    /\ wClock = 40
    /\ wOut = "heuristic_fallback"

C15_WitnessResult ==
    /\ wpc = "released"
    /\ wLoop = "other_thread"
    /\ wClock = 12
    /\ wOut = "result"

\* the sum of the per-attempt timeouts and of the backoff delays
LatencyBudget == kRetries * kTimeout + (2 ^ (kRetries - 1) - 1)

\* C25: the time a synthesis takes is at most the sum of the per-attempt
\* timeouts and of the backoff delays, and once craft_message has returned
\* to its caller, by expiry of the wait included, the retry loop of that
\* request makes no further attempt and no further backoff sleep.
C25_RetriesCancelled ==
    /\ kBusy <= LatencyBudget
    /\ kLate = NoLate

\* the time spent in attempts and sleeps stays within the budget
C25_LatencyBound == kBusy <= LatencyBudget

C11_Witness ==
    /\ fpc = "done"
    /\ fEntry = "_call_openrouter_with_retries"
    /\ fAgent.max_retries = 3
    /\ fAgent.retry_backoff = 1
    /\ \A k \in 1..3 : fResps[k] = Resp("transport_error", 0)
    /\ Len(fOut.trace) = 5
    /\ fOut.trace[4] = [ev |-> "sleep", arg |-> 2]
    /\ fOut.producer = "raised"

C11_WitnessStopsEarly ==
    /\ fpc = "done"
    /\ fEntry = "_call_openrouter_with_retries"
    /\ fAgent.max_retries = 3
    /\ fResps[1] = Resp("no_json", 0)
    /\ fResps[2] = Resp("ok", 2)
    /\ Attempts(fOut.trace) = 2
    /\ fOut.producer = "remote"

----------------------------------------------------------------------------
(* Properties of the affect classifier                                     *)

\* C6: for every text (the empty string and None included) classify returns
\* stress_score and valence in [0,1] and does not raise, whatever the state of
\* the optional scorer.
C6_ClassifyInRange ==
    epc = "done" =>
        /\ ~eResult.raised
        /\ eResult.value.shape = "emotion"
        /\ eResult.value.emotion.stress_score.t = "float"
        /\ eResult.value.emotion.valence.t = "float"
        /\ eResult.value.emotion.stress_score.v \in 0..One
        /\ eResult.value.emotion.valence.v \in 0..One

\* a text whose weighted count is past the clamp, scored 1.0, with the
\* optional scorer asked for
C6_Witness ==
    /\ epc = "done"
    /\ eText = "estou muito stressado, tenho muitos exames"
    /\ eResult.value.emotion.stress_score.v = One
    /\ eResult.value.emotion.dominant = "alto_stress"

\* classify(None) returns the zero scores
C6_WitnessNone ==
    /\ epc = "done"
    /\ eText = PyNone
    /\ ~eResult.raised
    /\ eResult.value.emotion.stress_score.v = 0

\* a call of classify on an agent created with use_hf = True whose pipeline
\* can be loaded, for a text of more than 5 characters once stripped
ScorerConfiguredCall ==
    /\ epc = "call"
    /\ epc' = "done"
    /\ eAgent.use_hf
    /\ eEnv = "ok"
    /\ eText # PyNone
    /\ Len(Strip(eText)) > 5

\* C27: when the optional external scorer is configured, classify invokes
\* it before the heuristic on every input longer than 5 characters, returns
\* its result when that result's stress is at least 0.3 and the heuristic
\* result otherwise.
C27_ScorerFirst ==
    [][ScorerConfiguredCall =>
           /\ eAgent'.pipeline_initialized
           /\ eAgent'.pipeline # PyNone
           /\ \E flat \in HfScores :
                  eResult' = IF classify_with_hf(flat).emotion.stress_score.v < 3000
                             THEN classify_heuristic(eText)
                             ELSE [raised |-> FALSE,
                                   value |-> classify_with_hf(flat)]]_vars

\* the lowered text of a finished call and its weighted stress count
LowerText == Lower(eText)

StressCount == StressCountFrom(LowerText, 1, Len(stress_indicators))

\* the stress score the call returned
StressReturned == eResult.value.emotion.stress_score.v

\* C28: whenever the lowered text matches one of the high-intensity
\* phrases, the stress score of _classify_heuristic is at least 0.7,
\* whatever the keyword count, zero included; the floor is a maximum with the
\* computed score, so a computed score above 0.7 is returned unchanged.
C28_PhraseFloor ==
    (epc = "done" /\ PhraseMatched(LowerText)) =>
        LET computed == StressFromCount(StressCount, LowerText)
        IN  /\ StressReturned >= 7000
            /\ StressReturned = Round2(Max(computed, 7000))
            /\ computed > 7000 => StressReturned = Round2(computed)

\* a phrase with no counted keyword: the floor alone
C28_Witness ==
    /\ epc = "done"
    /\ eText = "vou ter um ataque"
    /\ StressCount = 0
    /\ PhraseMatched(LowerText)
    /\ StressReturned = 7000

\* a phrase with one counted keyword: 0.65 is raised to 0.7, not to 1.0
C28_WitnessRaised ==
    /\ epc = "done"
    /\ eText = "Sinto-me  cansado"
    /\ StressCount = 1
    /\ PhraseMatched(LowerText)
    /\ StressReturned = 7000

\* a phrase with a computed score above the floor
C28_WitnessAbove ==
    /\ epc = "done"
    /\ eText = "estou no limite"
    /\ PhraseMatched(LowerText)
    /\ StressReturned = One

\* the one bonus of a weighted count, as the claim tabulates it
BonusOf(c) ==
    IF c >= 6 THEN 3000
    ELSE IF c >= 4 /\ c < 6 THEN 2000
    ELSE IF c >= 2 /\ c < 4 THEN 1000
    ELSE 0

\* C29: with no phrase match, a weighted stress count c > 0 gives the stress
\* score min(1.0, min(1.0, 0.5 + 0.15*c) + bonus(c)), with bonus 0.3 for
\* c >= 6, 0.2 for 4 <= c < 6, 0.1 for 2 <= c < 4 and 0 for c = 1; a count of
\* 0 gives the stress score 0.
C29_StressFormula ==
    (epc = "done" /\ ~PhraseMatched(LowerText)) =>
        /\ StressCount > 0 =>
               StressReturned =
                   Min(One, Min(One, 5000 + 1500 * StressCount) + BonusOf(StressCount))
        /\ StressCount = 0 => StressReturned = 0

\* a count of 2: 0.8 and the bonus 0.1
C29_Witness ==
    /\ epc = "done"
    /\ eText = "ansiedade"
    /\ ~PhraseMatched(LowerText)
    /\ StressCount = 2
    /\ StressReturned = 9000

\* a count of 1: no bonus
C29_WitnessOne ==
    /\ epc = "done"
    /\ ~PhraseMatched(LowerText)
    /\ StressCount = 1
    /\ StressReturned = 6500

\* counts of 3, 4, 5 and 6 all end at the clamp
C29_WitnessClamped ==
    /\ epc = "done"
    /\ ~PhraseMatched(LowerText)
    /\ StressCount = 6
    /\ StressReturned = One

\* no keyword and no phrase
C29_WitnessZero ==
    /\ epc = "done"
    /\ eText = "estou feliz"
    /\ ~PhraseMatched(LowerText)
    /\ StressCount = 0
    /\ StressReturned = 0

\* the five labels of lines 254-263
DominantLabels == {"alto_stress", "stress", "stress_leve", "felicidade", "neutro"}

\* the label _classify_heuristic returns for a text
LabelOf(text) == classify_heuristic(text).value.emotion.dominant

\* the valence and the label the call returned
ValenceReturned == eResult.value.emotion.valence.v

DominantReturned == eResult.value.emotion.dominant

\* C30: the dominant label follows from the final (stress, valence) pair by
\* first-match banding, it is never null, and each of the five labels is
\* the result for some input text.
C30_EveryLabelReturned ==
    /\ epc = "done" =>
           /\ DominantReturned \in DominantLabels
           /\ DominantReturned =
                  IF StressReturned > 7000 THEN "alto_stress"
                  ELSE IF StressReturned > 4000 THEN "stress"
                  ELSE IF StressReturned > ValenceReturned THEN "stress_leve"
                  ELSE IF ValenceReturned > StressReturned THEN "felicidade"
                  ELSE "neutro"
    /\ \A label \in DominantLabels : \E text \in HeuristicTexts : LabelOf(text) = label

\* C30, the part that holds: the banding, a label that is never null, and
\* four of the five labels returned; no stress score lies in (0, 0.4], so
\* the mild-stress label is returned for no text.
C30_Banding ==
    /\ epc = "done" =>
           /\ DominantReturned \in DominantLabels \ {"stress_leve"}
           /\ StressReturned = 0 \/ StressReturned >= 6500
           /\ DominantReturned =
                  IF StressReturned > 7000 THEN "alto_stress"
                  ELSE IF StressReturned > 4000 THEN "stress"
                  ELSE IF StressReturned > ValenceReturned THEN "stress_leve"
                  ELSE IF ValenceReturned > StressReturned THEN "felicidade"
                  ELSE "neutro"
    /\ \A label \in DominantLabels \ {"stress_leve"} :
           \E text \in HeuristicTexts : LabelOf(text) = label

\* a word of the test of line 221 is itself a stress indicator: the count is
\* 1, the score 0.65 and the label the stress label
C30_WitnessKeyword ==
    /\ epc = "done"
    /\ eText = "um pouco de stress"
    /\ StressCount = 1
    /\ StressReturned = 6500
    /\ DominantReturned = "stress"

\* C16: when several threads call _ensure_pipeline_initialized on an agent
\* not yet initialised, pipeline_fn runs at most once, and once all have
\* returned every caller was told the state the agent is in.
C16_InitOnce ==
    /\ lCalls <= 1
    /\ (\A t \in Threads : lpc[t] = "done") =>
           \A t \in Threads :
               lRet[t] = IF lAgent.pipeline # PyNone THEN "True" ELSE "False"

----------------------------------------------------------------------------
(* Properties of the calendar agent                                        *)

\* C17: get_upcoming_events returns the empty list whenever no calendar is
\* available or the fetch raises, whatever the earlier calls returned.
C17_EmptyOnFailure ==
    (cLog # <<>> /\ cLog[Len(cLog)].failed) => cRet = <<>>

----------------------------------------------------------------------------
(* Properties of the intent extractor                                      *)

BlankIntentText == Falsy(iText) \/ Strip(iText) = ""

C19_WitnessText ==
    /\ ipc = "done"
    /\ iEntry = "handle_input"
    /\ iText = "dormi 6 horas e tenho de estudar"
    /\ iOut.slots.sleep_hours = [none |-> FALSE, v |-> 6]
    /\ iOut.slots.tasks # <<>>

----------------------------------------------------------------------------
(* Properties of the schedule allocator                                    *)

\* C9: bfs_schedule(tasks, budget) returns exactly min(len(tasks), budget)
\* entries, entry i being the slot numbered i that holds the i-th input task;
\* an empty task list or a budget of 0 gives the empty sequence.
C9_BfsFifoPrefix ==
    bpc = "done" =>
        /\ Len(bResult) = Min(Len(bTasks), bBudget)
        /\ \A i \in 1..Len(bResult) :
               bResult[i] = "Slot " \o ToString(i) \o ": " \o bTasks[i]
        /\ (bTasks = <<>> \/ bBudget = 0) => bResult = <<>>

\* a call that truncates: more tasks than slots, distinct tasks
C9_Witness ==
    /\ bpc = "done"
    /\ Len(bTasks) = 3
    /\ bBudget = 2
    /\ bTasks[1] # bTasks[2]
    /\ Len(bResult) = 2

\* C10: calculate_stress_slots returns 2 above 0.7, 3 in (0.4, 0.7], 4 at or
\* below 0.4, and is non-increasing in the stress level.
C10_StressSlotsStep ==
    spc = "done" =>
        /\ sLevel1 > 7000 => sSlots1 = 2
        /\ (4000 < sLevel1 /\ sLevel1 <= 7000) => sSlots1 = 3
        /\ sLevel1 <= 4000 => sSlots1 = 4
        /\ sLevel1 = 8000 => sSlots1 = 2
        /\ sLevel1 = 5000 => sSlots1 = 3
        /\ sLevel1 = 1000 => sSlots1 = 4
        /\ sLevel1 = 7000 => sSlots1 = 3
        /\ sLevel1 = 4000 => sSlots1 = 4
        /\ sLevel1 <= sLevel2 => sSlots1 >= sSlots2

\* the two band edges, in order
C10_Witness ==
    /\ spc = "done"
    /\ sLevel1 = 4000
    /\ sLevel2 = 7000
    /\ sSlots1 = 4
    /\ sSlots2 = 3

----------------------------------------------------------------------------
(* Properties of the orchestration                                         *)

EnvelopeKeys == {"emotion", "optimized_schedule", "events", "message", "success"}

\* the input is None, empty or made of whitespace only
BlankText(t) ==
    \/ t = PyNone
    \/ \A i \in 1..Len(t) : SubSeq(t, i, i) \in {" ", "\t", "\n", "\r"}

Returned == pc = "done" /\ ~raised

\* the failures the orchestration degrades on
Degradable == {"classify", "calendar", "suggest", "bfs", "remote", "feedback_missing"}

\* C1: handle_text never raises: whatever the input and whichever
\* collaborators fail or are None, the call ends by returning an envelope
\* that carries emotion, optimized_schedule, events, message and success.
C1_NeverRaises ==
    /\ ~raised
    /\ pc = "done" =>
           /\ EnvelopeKeys \subseteq DOMAIN response
           /\ response.success \in BOOLEAN

C1_Witness ==
    /\ Returned
    /\ {"classify", "calendar", "bfs", "suggest", "craft"} \subseteq faults
    /\ response.success

\* the source names the remote generator
NamesRemote(source) ==
    Contains(source, "LLM") \/ Contains(Lower(source), "openrouter")

\* C2: message.source of a returned envelope names the remote generator
\* only if a successful remote call produced the recommendations; content of
\* _heuristic_feedback or of the default triple carries a heuristic source.
C2_SourceTruthful ==
    Returned =>
        /\ NamesRemote(response.message.source) => producer = "remote"
        /\ producer \in {"heuristic", "default"} =>
               HeuristicTag(response.message.source)

\* C4: success is false only for blank input and for an exception that
\* reached the outer handler; a run with degradable failures only returns
\* success = true.
C4_SuccessFalseOnlyTerminal ==
    Returned =>
        /\ ~response.success => BlankText(frame.text) \/ outer
        /\ ~BlankText(frame.text) /\ faults \subseteq Degradable =>
               response.success

C4_Witness ==
    /\ Returned
    /\ ~BlankText(frame.text)
    /\ {"classify", "calendar", "suggest", "bfs", "remote"} \subseteq faults
    /\ faults \subseteq Degradable
    /\ response.success

C4_WitnessOuter ==
    /\ Returned
    /\ outer
    /\ ~response.success

\* C5: None, the empty string and whitespace-only input all return
\* success = false with an empty recommendations list.
C5_BlankInput ==
    pc = "done" /\ BlankText(frame.text) =>
        /\ ~raised
        /\ ~response.success
        /\ response.message.recommendations = <<>>

C5_Witness ==
    /\ Returned
    /\ frame.text = "   "
    /\ ~response.success
    /\ response.message.recommendations = <<>>

\* C7: stress_score and valence of a returned envelope lie in [0,1] whatever
\* the classifier returned, and are 0.0 when the classifier is missing,
\* raised, or returned nothing that carries scores.
C7_ScoresClamped ==
    Returned =>
        /\ response.emotion.stress_score \in 0..One
        /\ response.emotion.valence \in 0..One
        /\ response.success /\ (frame.emo_raw.shape = "None"
                                \/ ~frame.emo_raw.emotion.isdict) =>
               /\ response.emotion.stress_score = 0
               /\ response.emotion.valence = 0

C7_Witness ==
    /\ Returned
    /\ response.success
    /\ frame.emo_raw.shape = "flat"
    /\ frame.emo_raw.emotion.stress_score = F(15000)
    /\ frame.emo_raw.emotion.valence = F(-2000)
    /\ response.emotion.stress_score = One
    /\ response.emotion.valence = 0

\* C18: when an exception reaches the outer handler, the envelope has
\* success = false, exactly one recommendation (the apology), the source
\* "System", a follow-up prompt that invites a retry, scores of zero, an
\* empty schedule and no events.
C18_ErrorEnvelope ==
    (Returned /\ outer) =>
        /\ ~response.success
        /\ Len(response.message.recommendations) = 1
        /\ response.message.recommendations[1] =
               Rec("immediate", "Ocorreu um erro. Por favor, tenta novamente.")
        /\ Lower(response.message.source) = "system"
        /\ response.message.follow_up_prompt =
               "Desculpa pelo inconveniente. Podes tentar novamente?"
        /\ response.emotion.stress_score = 0
        /\ response.emotion.valence = 0
        /\ response.optimized_schedule.schedule = <<>>
        /\ response.events = <<>>

C18_Witness ==
    /\ Returned
    /\ outer
    /\ faults = {"intent"}
    /\ ~BlankText(frame.text)
    /\ response.message.source = "System"
    /\ Len(response.message.recommendations) = 1

\* C8: emotion.dominant of a returned envelope is never null: a missing
\* label is replaced by a default label.
C8_DominantNonNull ==
    Returned => response.emotion.dominant # PyNone

\* the input of the end-to-end example
StressedInput == "estou muito stressado, tenho muitos exames"

\* the run classified StressedInput with the EmotionAgent's own classify and
\* no exception reached the outer handler
StressedRun ==
    /\ Returned
    /\ frame.text = StressedInput
    /\ ~outer
    /\ ~emotion.none
    /\ "classify" \notin faults
    /\ \E c \in classify(emotion.agent, StressedInput, "ok") :
           ~c.result.raised /\ frame.emo_raw = c.result.value

\* C20: for the input "estou muito stressado, tenho muitos exames" classified
\* by the heuristic classifier, handle_text returns an envelope with
\* stress_score >= 0.7, dominant "alto_stress", at least one recommendation
\* and success = true, whether the remote service answers, fails or has no
\* key.
C20_StressedEndToEnd ==
    StressedRun =>
        /\ response.emotion.stress_score >= 7000
        /\ response.emotion.dominant = "alto_stress"
        /\ response.message.recommendations # <<>>
        /\ response.success

\* the remote service produced the recommendations
C20_Witness ==
    /\ StressedRun
    /\ producer = "remote"
    /\ response.emotion.dominant = "alto_stress"
    /\ response.success

\* the remote service failed on every attempt
C20_WitnessRemoteFails ==
    /\ StressedRun
    /\ "remote" \in faults
    /\ response.message.recommendations # <<>>
    /\ response.success

\* no key is configured
C20_WitnessNoKey ==
    /\ StressedRun
    /\ ~feedback.none
    /\ feedback.agent.api_key = PyNone
    /\ response.emotion.stress_score >= 7000
    /\ response.success

\* C21: a stage's failure is replaced by its default and the run still ends
\* with success = true: empty slots when intent extraction raises, zero
\* scores when classification raises, no events when the calendar fetch
\* raises, no suggestions when suggest_plan raises.
C21_StageFailuresLocal ==
    (Returned /\ ~BlankText(frame.text)) =>
        /\ "intent" \in faults =>
               response.success /\ frame.slots = EmptySlots
        /\ "classify" \in faults =>
               /\ response.success
               /\ response.emotion.stress_score = 0
               /\ response.emotion.valence = 0
        /\ ("calendar" \in faults /\ "intent" \notin faults) =>
               response.success
        /\ ("suggest" \in faults /\ "intent" \notin faults) =>
               response.success /\ frame.calendar_suggestions = <<>>

\* the three stages that do have a handler of their own
C21_LocalHandlers ==
    (Returned /\ ~BlankText(frame.text) /\ "intent" \notin faults) =>
        /\ "classify" \in faults =>
               /\ response.success
               /\ response.emotion.stress_score = 0
               /\ response.emotion.valence = 0
        /\ "calendar" \in faults => response.success
        /\ "suggest" \in faults =>
               response.success /\ frame.calendar_suggestions = <<>>

\* the stages of one call, in the order of the code
StageOrder ==
    <<"intent", "classify", "calendar", "schedule", "suggest", "feedback",
      "assemble", "done">>

\* a step goes from a stage to the next one, or to the end through the
\* outer handler, or starts a call
StageStep ==
    pc' # pc =>
        \/ pc \in {"idle", "done"} /\ pc' \in {"intent", "done"}
        \/ \E i \in 1..(Len(StageOrder) - 1) :
               pc = StageOrder[i] /\ pc' = StageOrder[i + 1]
        \/ pc' = "done" /\ outer'

\* feedback synthesis was called with the clamped scores of this call's
\* classification and with this call's suggestions
FeedbackGetsEarlierResults ==
    frame.feedback_input.given =>
        LET emo == extract_emotion_scores(frame.emo_raw)
            given == frame.feedback_input
        IN  /\ given.emotion_summary.stress_score = Clamp01(emo.stress_score)
            /\ given.emotion_summary.valence = Clamp01(emo.valence)
            /\ given.emotion_summary.stress_score \in 0..One
            /\ given.emotion_summary.valence \in 0..One
            /\ given.calendar_suggestions = frame.calendar_suggestions
            /\ pc \in {"assemble", "done"}

\* C22: within one handle_text call on non-blank input the stages run at
\* most once each and in the order intent, classify, calendar, schedule,
\* suggestions, feedback, envelope, and feedback synthesis receives the
\* clamped affect and the suggestions computed earlier in the same call.
C22_StagesInOrder ==
    /\ [][StageStep]_vars
    /\ [](FeedbackGetsEarlierResults)
    /\ []((pc \in {"feedback", "assemble"}) => ~BlankText(frame.text))

\* a call went through every stage and feedback got a stress of 1.0 and a
\* non-empty suggestion list
C22_Witness ==
    /\ Returned
    /\ response.success
    /\ ~BlankText(frame.text)
    /\ faults = {}
    /\ frame.feedback_input.given
    /\ frame.feedback_input.emotion_summary.stress_score = One
    /\ frame.feedback_input.calendar_suggestions # <<>>
    /\ frame.feedback_input.calendar_suggestions = frame.calendar_suggestions

\* C23: when bfs_schedule raises, the schedule is one entry per task for the
\* first min(len(tasks), available_slots) tasks in task order and the run
\* ends with success = true; in every success = true envelope the schedule
\* is no longer than available_slots and no longer than total_tasks.
C23_ScheduleDegrades ==
    /\ (Returned /\ response.success) =>
           LET sched == response.optimized_schedule
               tasks == extract_tasks_from_text(frame.raw_text, frame.slots)
               n == Min(Len(tasks), frame.available_slots)
           IN  /\ Len(sched.schedule) <= sched.available_slots
               /\ Len(sched.schedule) <= sched.total_tasks
               /\ sched.total_tasks = Len(tasks)
               /\ frame.tasks = tasks
               /\ "bfs" \in faults =>
                      /\ Len(sched.schedule) = n
                      /\ \A i \in 1..n :
                             sched.schedule[i] = "Tarefa: " \o tasks[i]
    /\ (Returned /\ "bfs" \in faults /\ ~outer) => response.success

\* bfs_schedule raised with more tasks than slots
C23_Witness ==
    /\ Returned
    /\ response.success
    /\ "bfs" \in faults
    /\ Len(frame.tasks) > frame.available_slots
    /\ Len(response.optimized_schedule.schedule) = frame.available_slots
    /\ frame.available_slots > 0

\* C26: a call returns the envelope it would return if it ran alone against
\* the same collaborator responses, whatever calls came before it or run
\* beside it: its events and suggestions never depend on what another
\* request fetched or cached.  Alone, a call whose calendar fetch fails has
\* no events and the suggestions of an empty calendar.
C26_RequestsIndependent ==
    (Returned /\ response.success /\ "calendar" \in faults) =>
        /\ response.events = <<>>
        /\ "suggest" \notin faults =>
               frame.calendar_suggestions = suggest_plan(EmotionSummary, <<>>)

\* the call ended in the envelope of _heuristic_feedback
HeuristicReturned ==
    /\ fpc = "done"
    /\ fEntry \in {"craft_message", "generate_feedback"}
    /\ fOut.result.source = "heuristic_evidence_based"

\* lines 406-409: the suggestions mention a meeting, class, event or commitment
MentionsCommitment(calendar_suggestions) ==
    /\ calendar_suggestions # <<>>
    /\ \E word \in {"reunião", "aula", "evento", "compromisso"} :
           Contains(Lower(JoinSpace(calendar_suggestions)), word)

\* C31: when the heuristic generator runs with calendar suggestions that
\* mention a meeting/class/event/commitment keyword and with stress > 0.5,
\* the envelope contains the transition-block recommendation in addition to
\* recommendations of the band's curated triple.
C31_TransitionBlockReturned ==
    (HeuristicReturned /\ MentionsCommitment(fSuggestions)
        /\ fSummary.stress_score > 5000) =>
        \E i \in 1..Len(fOut.result.recommendations) :
            fOut.result.recommendations[i].type = TransitionBlock.type
            /\ fOut.result.recommendations[i].text = TransitionBlock.text

\* C31, what the code does: the extra recommendation is appended fourth and
\* recommendations[:3] cuts it, so the envelope is the curated triple alone
C31_TripleAlone ==
    HeuristicReturned =>
        /\ Len(fOut.result.recommendations) = 3
        /\ \A i \in 1..3 :
               fOut.result.recommendations[i].type
                   = <<"immediate", "short_term", "professional">>[i]

\* the heuristic generator ran with an event suggestion and stress 0.65
C31_WitnessElevated ==
    /\ HeuristicReturned
    /\ MentionsCommitment(fSuggestions)
    /\ fSummary.stress_score = 6500
    /\ Len(fOut.result.recommendations) = 3
    /\ fOut.result.recommendations[3].type = "professional"

\* line 221: one of the four words of the elif is in the lowered text
MinimumWordFound(lower) ==
    \E word \in {"stress", "ansiedade", "preocupado", "sobrecarregado"} :
        Contains(lower, word)

\* C34: the stress score of _classify_heuristic is exactly 0 or at least
\* 0.65; the branch that assigns 0.4 is unreachable (its words are counted
\* indicators), so the mild-stress label is never returned.
C34_NoMildStress ==
    epc = "done" =>
        /\ StressReturned = 0 \/ StressReturned >= 6500
        /\ MinimumWordFound(LowerText) => StressCount > 0
        /\ StressReturned # 4000
        /\ DominantReturned # "stress_leve"

\* a word of line 221 alone in the text: counted twice, score 0.9
C34_Witness ==
    /\ epc = "done"
    /\ eText = "preocupado"
    /\ MinimumWordFound(LowerText)
    /\ StressCount = 2
    /\ StressReturned = 9000
    /\ DominantReturned = "alto_stress"

\* the lowest positive score: one indicator of weight 1
C34_WitnessLowest ==
    /\ epc = "done"
    /\ eText = "tenho um teste"
    /\ StressReturned = 6500

\* no indicator at all
C34_WitnessNone ==
    /\ epc = "done"
    /\ eText = "hoje"
    /\ StressReturned = 0
    /\ DominantReturned = "neutro"

\* a success envelope whose emotion came from the heuristic classifier
HeuristicEnvelope ==
    /\ Returned
    /\ response.success
    /\ ~IsBlankInput(frame.text)
    /\ ~emotion.none
    /\ "classify" \notin faults
    /\ frame.emo_raw = classify_heuristic(frame.raw_text).value

\* C35: in every success envelope produced with the heuristic classifier
\* the affect band and the slot budget agree: the high-stress label exactly
\* with 2 slots, the stress label exactly with 3, any other label exactly
\* with 4; 1 <= total_tasks <= 4 and the schedule has exactly
\* min(total_tasks, available_slots) entries, so it is never empty.
C35_BandMatchesSlots ==
    HeuristicEnvelope =>
        LET sched == response.optimized_schedule
            dominant == response.emotion.dominant
        IN  /\ sched.available_slots \in {2, 3, 4}
            /\ dominant = "alto_stress" <=> sched.available_slots = 2
            /\ dominant = "stress" <=> sched.available_slots = 3
            /\ dominant \notin {"alto_stress", "stress"} <=> sched.available_slots = 4
            /\ sched.total_tasks >= 1
            /\ sched.total_tasks <= 4
            /\ Len(sched.schedule) = Min(sched.total_tasks, sched.available_slots)
            /\ sched.schedule # <<>>

\* the high-stress band: 2 slots for the 4 default tasks
C35_Witness ==
    /\ HeuristicEnvelope
    /\ response.emotion.dominant = "alto_stress"
    /\ response.optimized_schedule.available_slots = 2
    /\ response.optimized_schedule.total_tasks = 4
    /\ Len(response.optimized_schedule.schedule) = 2

\* the stress band reached by the phrase floor alone: exactly 0.7, 3 slots
C35_WitnessFloor ==
    /\ HeuristicEnvelope
    /\ frame.text = "vou ter um ataque"
    /\ response.emotion.stress_score = 7000
    /\ response.emotion.dominant = "stress"
    /\ response.optimized_schedule.available_slots = 3
    /\ Len(response.optimized_schedule.schedule) = 3

\* another label, 4 slots, a single detected task
C35_WitnessOneTask ==
    /\ HeuristicEnvelope
    /\ frame.text = "tenho de estudar"
    /\ response.emotion.dominant = "neutro"
    /\ response.optimized_schedule.available_slots = 4
    /\ response.optimized_schedule.total_tasks = 1
    /\ Len(response.optimized_schedule.schedule) = 1

\* the schedule of the fallback after the allocator raised
C35_WitnessFallback ==
    /\ HeuristicEnvelope
    /\ "bfs" \in faults
    /\ response.emotion.dominant = "stress"
    /\ Len(response.optimized_schedule.schedule) = 3

\* a step that calls handle_text with None, empty or whitespace-only input
BlankCallStep ==
    /\ pc \in {"idle", "done"}
    /\ pc' = "done" \/ pc' = "intent"
    /\ BlankText(frame'.text)

\* C36: for empty or whitespace-only input handle_text invokes no stage: the
\* call returns at once with the empty-input envelope, no collaborator's
\* result is stored, no network attempt is made and no agent state
\* (calendar events_cache, classifier flags) changes.
C36_BlankInvokesNothing ==
    [][BlankCallStep =>
          /\ pc' = "done"
          /\ frame' = Frame(frame'.text)
          /\ response' = get_empty_response
          /\ netTrace' = <<>>
          /\ faults' = {}
          /\ producer' = ""
          /\ ~raised' /\ ~outer'
          /\ interface' = interface
          /\ emotion' = emotion
          /\ calendar' = calendar
          /\ feedback' = feedback]_vars

\* a whitespace-only call after a call that filled the calendar cache
C36_Witness ==
    /\ pc = "done"
    /\ frame.text = "   "
    /\ response = get_empty_response
    /\ netTrace = <<>>
    /\ ~calendar.none
    /\ calendar.agent.events_cache # <<>>

\* a first call with None on a classifier whose flag was never touched
C36_WitnessFirstCall ==
    /\ pc = "done"
    /\ frame.text = PyNone
    /\ response = get_empty_response
    /\ ~emotion.none
    /\ emotion.agent.use_hf

\* generate_feedback returned on an agent with a key and max_retries <= 0
NoRetriesRun ==
    /\ fpc = "done"
    /\ fEntry = "generate_feedback"
    /\ fAgent.openrouter_available
    /\ fAgent.max_retries <= 0

\* C37: with an API key configured and max_retries 0 or negative,
\* generate_feedback makes no remote attempt and no backoff sleep, and
\* returns the output of the heuristic generator without raising.
C37_NoRetriesNoAttempt ==
    NoRetriesRun =>
        /\ fOut.trace = <<>>
        /\ fOut.producer = "heuristic"
        /\ fOut.result = heuristic_feedback(fSummary, fSuggestions)
        /\ fOut.result.source = "heuristic_evidence_based"
        /\ Len(fOut.result.recommendations) = 3

\* max_retries = 0
C37_Witness ==
    /\ NoRetriesRun
    /\ fAgent.max_retries = 0
    /\ fOut.trace = <<>>
    /\ fOut.producer = "heuristic"

\* max_retries negative
C37_WitnessNegative ==
    /\ NoRetriesRun
    /\ fAgent.max_retries = -1
    /\ fOut.trace = <<>>
    /\ fOut.producer = "heuristic"

\* called directly, the retry loop raises its placeholder error
C37_WitnessLoopRaises ==
    /\ fpc = "done"
    /\ fEntry = "_call_openrouter_with_retries"
    /\ fAgent.max_retries <= 0
    /\ fOut.producer = "raised"

\* craft_message was called on the thread that runs the loop it finds
OnLoopThread == kpc # "off" /\ kLoop = "caller_thread"

\* C38: called on the thread that runs the loop it finds, craft_message
\* blocks that thread, so the submitted coroutine makes no progress: no
\* remote attempt begins or completes before the call returns, and the call
\* always returns the heuristic fallback, when the bounded wait of
\* request_timeout + 10 expires.
C38_SameThreadFallsBack ==
    /\ []((OnLoopThread /\ kpc \in {"call", "blocked"}) =>
             /\ kAttempt = 0
             /\ kBusy = 0
             /\ kPhase \in {"new", "queued"})
    /\ []((OnLoopThread /\ kpc = "released") =>
             /\ kOut = "heuristic_fallback"
             /\ kClock >= kTimeout + 10
             /\ kLate.attempts = kAttempt)
    /\ [][(OnLoopThread /\ kpc = "blocked" /\ kpc' = "released") =>
             /\ kClock = kTimeout + 10
             /\ kClock' = kClock
             /\ kAttempt' = 0]_vars
    /\ ((OnLoopThread /\ kpc = "blocked") ~> (kpc = "released"))

\* released by the expiry after 40 seconds, before any attempt
C38_Witness ==
    /\ OnLoopThread
    /\ kpc = "released"
    /\ kTimeout = 30
    /\ kClock = 40
    /\ kAttempt = 0
    /\ kOut = "heuristic_fallback"

\* the first attempt of the coroutine begins only after the call returned
C38_WitnessLateAttempt ==
    /\ OnLoopThread
    /\ kpc = "released"
    /\ kOut = "heuristic_fallback"
    /\ kAttempt = 1
    /\ kLate.attempts = 1

\* choices[0] is a mapping
ChoiceIsMapping(data) ==
    /\ data.kind = "dict"
    /\ data.choices.state = "list"
    /\ data.choices.first.kind = "dict"

\* the shape the claim puts at each place of its order, Absent when the
\* body does not have it
ShapeValue(data, place) ==
    IF place = 1
    THEN IF ChoiceIsMapping(data) /\ data.choices.first.message.state = "dict"
         THEN data.choices.first.message.content ELSE Absent
    ELSE IF place = 2
    THEN IF ChoiceIsMapping(data) THEN data.choices.first.text ELSE Absent
    ELSE IF place = 3 THEN IF data.kind = "dict" THEN data.content ELSE Absent
    ELSE IF place = 4 THEN IF data.kind = "dict" THEN data.text ELSE Absent
    ELSE IF place = 5 THEN IF data.kind = "dict" THEN data.output ELSE Absent
    ELSE StrOf(data)

\* the first place of the order whose shape the body has
FirstPlace(data) ==
    CHOOSE place \in 1..6 :
        /\ ShapeValue(data, place) # Absent
        /\ \A q \in 1..(place - 1) : ShapeValue(data, q) = Absent

\* C32: _extract_content_from_response returns the first shape that applies
\* in the order choices[0].message.content, choices[0].text, content, text,
\* output, the payload as a string; the chat-completion content wins over a
\* flat content field; None is returned only when nothing is extractable.
C32_FirstShapeReturned ==
    xpc = "done" =>
        /\ xOut.value = ShapeValue(xData, FirstPlace(xData))
        /\ xOut.value = PyNone =>
               \A place \in 1..5 : ShapeValue(xData, place) \in {Absent, PyNone}

\* the bodies whose choices, choices[0] and message, when present, are a
\* list, a mapping and a mapping
WellTyped(data) ==
    data.kind = "dict" =>
        /\ data.choices.state # "null"
        /\ data.choices.state = "list" =>
               /\ data.choices.first.kind = "dict"
               /\ data.choices.first.message.state # "null"

\* C32, the part that holds: on well-typed bodies the order is the claimed
\* one and nothing is caught; on the others the except clause returns None
\* whatever the later shapes hold
C32_OrderOnWellTyped ==
    xpc = "done" =>
        /\ WellTyped(xData) =>
               /\ ~xOut.caught
               /\ xOut.value = ShapeValue(xData, FirstPlace(xData))
        /\ ~WellTyped(xData) => xOut = ExtractFailed

\* a chat-completion content and a flat content: the first is returned
C32_WitnessChatWins ==
    /\ xpc = "done"
    /\ ShapeValue(xData, 1) = "from message"
    /\ xData.content = "from content"
    /\ xOut.value = "from message"

\* message is null: None, although choices[0].text and content are there
C32_WitnessNullMessage ==
    /\ xpc = "done"
    /\ ChoiceIsMapping(xData)
    /\ xData.choices.first.message.state = "null"
    /\ xData.choices.first.text = "from choice text"
    /\ xData.content = "from content"
    /\ xOut = ExtractFailed

\* nothing to extract from a mapping: its str() is returned, not None
C32_WitnessStringified ==
    /\ xpc = "done"
    /\ xData.kind = "dict"
    /\ xData.choices.state = "empty"
    /\ \A place \in 1..5 : ShapeValue(xData, place) = Absent
    /\ xOut.value = "{'choices': []}"

\* ---- _parse_json_response: the recovery steps ----

\* the answers that are one JSON object
ObjectBodies == {body \in JsonBodies : JsonValid(body) /\ Ch(body, 1) = "{"}

\* the objects of which the three-level pattern matches only a part
DeepBodies ==
    {body \in ObjectBodies :
         LET matches == FindAll("nested", body, 1)
         IN  matches # <<>> /\ Longest(matches) # body}

\* the longest match of each pattern fails to parse
PatternsFail(content) ==
    \A k \in 1..Len(json_patterns) :
        LET matches == FindAll(json_patterns[k], content, 1)
        IN  matches = <<>> \/ ~JsonValid(Longest(matches))

\* C33 as stated: the steps run in the order direct parse, brace-span
\* extraction, fence stripping, the first that parses gives the result, None
\* is returned only when all three fail, and a JSON object in a json fence
\* after prose is recovered as that object.
C33_FencedObjectRecovered ==
    jpc = "done" =>
        /\ (~Falsy(jContent) /\ JsonValid(jContent)) => jOut.step = "direct"
        /\ (~Falsy(jContent) /\ jOut.none) =>
               (~JsonValid(jContent) /\ PatternsFail(jContent)
                /\ ~JsonValid(Unfenced(jContent)))
        /\ \A body \in ObjectBodies :
               jContent = Wrap("Aqui tens: ", "json", body, "") =>
                   (~jOut.none /\ jOut.text = JsonValue(body))

\* C33, what the code does: the order of the steps and the None case are as
\* stated; the fenced object after prose is recovered whole when the
\* three-level pattern does not match a part of it, and otherwise the part the
\* pattern matched is returned.
C33_StepsInOrder ==
    jpc = "done" =>
        /\ Falsy(jContent) => jOut.none
        /\ (~Falsy(jContent) /\ JsonValid(jContent)) =>
               jOut = Parsed("direct", JsonValue(jContent))
        /\ (~Falsy(jContent) /\ ~JsonValid(jContent) /\ ~PatternsFail(jContent)) =>
               (~jOut.none /\ jOut.step \in {"nested", "any", "simple"})
        /\ (~Falsy(jContent) /\ ~JsonValid(jContent) /\ PatternsFail(jContent)) =>
               IF JsonValid(Unfenced(jContent))
               THEN jOut = Parsed("fence", JsonValue(Unfenced(jContent)))
               ELSE jOut.none
        /\ \A body \in ObjectBodies :
               jContent = Wrap("Aqui tens: ", "json", body, "") =>
                   /\ ~jOut.none
                   /\ body \notin DeepBodies => jOut.text = JsonValue(body)
                   /\ body \in DeepBodies =>
                          jOut = Parsed("nested", JsonValue(Longest(FindAll("nested", body, 1))))

\* a fenced object after prose, recovered as the embedded object
C33_WitnessRecovered ==
    /\ jpc = "done"
    /\ jContent = Wrap("Aqui tens: ", "json", "{\"recommendations\": [{\"type\": \"immediate\"}], \"n\": 3}", "")
    /\ jOut = Parsed("any", "{\"recommendations\":[{\"type\":\"immediate\"}],\"n\":3}")

\* a fenced object nested four deep after prose: the inner object is returned
C33_WitnessInnerObject ==
    /\ jpc = "done"
    /\ jContent = Wrap("Aqui tens: ", "json", "{\"a\": {\"b\": {\"c\": {\"d\": 1}}}}", "")
    /\ jOut = Parsed("nested", "{\"b\":{\"c\":{\"d\":1}}}")

\* a fenced array with nothing around it: only the fence step parses
C33_WitnessFenceStep ==
    /\ jpc = "done"
    /\ jContent = Wrap("", "json", "[1, 2]", "")
    /\ jOut = Parsed("fence", "[1,2]")

\* all three steps fail: None
C33_WitnessAllFail ==
    /\ jpc = "done"
    /\ jContent = Wrap("Aqui tens: ", "none", "nada", "")
    /\ jOut.none

====
